---------------------------- MODULE Spec2Model ----------------------------
(***************************************************************************)
(* State-machine model of the GTFS extractor (gtfs_general.extractor):     *)
(* GtfsFiles / GTFS / Extractor, the chunked CSV filter and the two        *)
(* drivers extract_by_bbox and extract_by_date.                            *)
(*                                                                         *)
(* A CSV file is modelled by its parsed content: the set of its columns    *)
(* and the sequence of its rows, a row being a function from column name   *)
(* to cell.  An id cell is a string, the empty cell (pandas NaN) is NA.    *)
(* A date cell is a pair <<format, day>>: "ymd" is the feed's YYYYMMDD     *)
(* text, "iso" what pandas writes for a parsed timestamp.  Coordinates     *)
(* are integers.  Columns that no pass looks at are left out.              *)
(***************************************************************************)
EXTENDS Integers, Sequences, FiniteSets, TLC

VARIABLES
    pc,             \* position of the running program
    driver,         \* "bbox" | "date": the driver the caller invokes
    run,            \* 1: extraction of the feed, 2: extraction of run 1's output,
                    \* 3: extraction of the unpacked folder after the archive
    fs,             \* the filesystem: the paths that are files -> content
    dirs,           \* the directories that exist
    gtfs_files,     \* Extractor._gtfs_files: attribute -> path
    input_folder,   \* the folder the constructor scans (its local input_object)
    output_folder,  \* the output_folder handed to the constructor
    loc,            \* the id-sets held in the driver's local variables
    err,            \* the exception that ended the run, or "none"
    returned,       \* the list a driver returned (as a set of paths)
    call,           \* the arguments of a direct call of the chunked filter
    input_object,   \* what the caller hands in: "folder" | "zip" | "file" | "badzip"
    temporary_folder_context,
                    \* GTFS._temporary_folder_context: "None" | "open" | "cleaned"
    cancel,         \* the shared cancel signal
    events,         \* the interferences the environment may still make
    os_cpu_count,   \* os.cpu_count(): "None" or the number of CPUs
    cpu_count,      \* main.cpu_count, the module-level variable
    cores,          \* the default of --cores, handed on as ctx.obj.cpu_count
    pool            \* the partitions of the file a pass reads, and the results
                    \* of the workers that have finished

\* the variables no pass of a driver touches
ambient == <<cancel, events, os_cpu_count, cpu_count, cores, pool>>

vars == <<pc, driver, run, fs, dirs, gtfs_files, input_folder, output_folder,
          loc, err, returned, call, input_object, temporary_folder_context,
          ambient>>

----------------------------------------------------------------------------
(* Bounds *)

\* longest table that Init varies
MaxRows == 2

\* the longest table a single pass is applied to
MaxFilterRows == 3

\* the longest table that is read in partitions, the most partitions it is
\* split into, and the most workers of the pool
MaxChunkRows == 3
MaxChunks == 3
MaxWorkers == 2

\* the interferences of the environment with one run
MaxEvents == 1

\* the largest CPU count
MaxCpus == 64

----------------------------------------------------------------------------
(* Values, files and paths *)

\* the empty cell: pandas reads it as NaN, to_csv writes it back as ""
NA == ""

Range(s) == {s[i] : i \in 1..Len(s)}

RequiredKeys == <<"agency", "calendar_dates", "calendar", "feed_info",
                  "routes", "stop_times", "stops", "trips">>

OptionalKeys == {"frequencies", "shapes", "transfers"}

Keys == Range(RequiredKeys) \cup OptionalKeys

\* the order in which set_files tries its tokens
TokenOrder == <<"agency", "calendar_dates", "calendar", "feed_info", "routes",
                "stop_times", "stops", "trips", "frequencies", "shapes",
                "transfers">>

TxtNames == {"agency.txt", "calendar_dates.txt", "calendar.txt",
             "feed_info.txt", "routes.txt", "stop_times.txt", "stops.txt",
             "trips.txt", "frequencies.txt", "shapes.txt", "transfers.txt"}

\* The directories are "in" (the feed), "out" and "out2" (output folders) and
\* "cwd" (the working directory); a path is [dir, name].  The members of the
\* archive handed in as a .zip file are the files under "zip"; "tmp" is the
\* scratch directory the archive is unpacked into.

\* an attribute of GtfsFiles that was never assigned (required) or is None
\* (optional)
NoPath == [dir |-> "none", name |-> "none"]

\* Path("foo"): relative, so resolved against the working directory
FooPath == [dir |-> "cwd", name |-> "foo"]

MkFile(cols, rows) == [cols |-> cols, rows |-> rows]

\* what a reader of the model gets for a path that is no file
NoFile == MkFile({}, <<>>)

\* the tokens a file name contains as substrings ("stop_times" does not
\* contain "stops"; "calendar_dates" contains "calendar")
Tokens(name) ==
    CASE name = "agency.txt" -> {"agency"}
      [] name = "calendar_dates.txt" -> {"calendar_dates", "calendar"}
      [] name = "calendar.txt" -> {"calendar"}
      [] name = "feed_info.txt" -> {"feed_info"}
      [] name = "routes.txt" -> {"routes"}
      [] name = "stop_times.txt" -> {"stop_times"}
      [] name = "stops.txt" -> {"stops"}
      [] name = "trips.txt" -> {"trips"}
      [] name = "frequencies.txt" -> {"frequencies"}
      [] name = "shapes.txt" -> {"shapes"}
      [] name = "transfers.txt" -> {"transfers"}
      [] name = "agency_stop_times.txt" -> {"agency", "stop_times"}
      [] name = "stop_times_calendar_dates.txt" -> {"stop_times", "calendar_dates", "calendar"}
      [] name = "feed_info_stop_times.txt" -> {"feed_info", "stop_times"}
      [] name = "routes_stops.txt" -> {"routes", "stops"}
      [] name = "trips_shapes.txt" -> {"trips", "shapes"}
      [] OTHER -> {}

\* Path.glob("*.txt")
\* names that hold more than one token
MixedNames == {"agency_stop_times.txt", "stop_times_calendar_dates.txt",
               "feed_info_stop_times.txt", "routes_stops.txt",
               "trips_shapes.txt"}

IsTxt(name) == name \in TxtNames \cup MixedNames \cup {"readme.txt"}

\* Path.exists()
Exists(fsys, path) == path \in DOMAIN fsys

FileAt(fsys, path) == IF Exists(fsys, path) THEN fsys[path] ELSE NoFile

\* create or overwrite the file at path
Write(fsys, path, file) ==
    [p \in DOMAIN fsys \cup {path} |-> IF p = path THEN file ELSE fsys[p]]

----------------------------------------------------------------------------
(* bbox.py, utils.py *)

\* mutant: the upper latitude edge is excluded
Contains_OpenEdge(bbox, lat, lon) ==
    /\ bbox.max_lat > lat /\ lat >= bbox.min_lat
    /\ bbox.max_lon >= lon /\ lon >= bbox.min_lon

Contains(bbox, lat, lon) ==
    /\ bbox.max_lat >= lat /\ lat >= bbox.min_lat
    /\ bbox.max_lon >= lon /\ lon >= bbox.min_lon

\* datetime.strptime(x, "%Y%m%d"): defined on "ymd" text only
CanParseDate(cell) == cell[1] = "ymd"

parse_date_from_str(cell) == cell[2]

\* DataFrame.to_csv of a parsed timestamp column
FormatTimestamp(day) == <<"iso", day>>

----------------------------------------------------------------------------
(* gtfs.py: GtfsFiles *)

EmptyGtfsFiles == [k \in Keys |-> NoPath]

\* the attribute set_files assigns for a name: the first token, in the
\* code's elif order, that the name contains
KeyOf(name) ==
    LET hits == {i \in 1..Len(TokenOrder) : TokenOrder[i] \in Tokens(name)}
    IN  IF hits = {} THEN "unknown"
        ELSE TokenOrder[CHOOSE i \in hits : \A j \in hits : i <= j]

\* mutant: the tokens are tried with stop_times and calendar_dates first
set_files_StopTimesFirst(table, path) ==
    LET order == <<"stop_times", "calendar_dates", "agency", "calendar",
                   "feed_info", "routes", "stops", "trips", "frequencies",
                   "shapes", "transfers">>
        hits == {i \in 1..Len(order) : order[i] \in Tokens(path.name)}
    IN  IF hits = {} THEN table
        ELSE [table EXCEPT ![order[CHOOSE i \in hits : \A j \in hits : i <= j]] = path]

set_files(table, path) ==
    IF KeyOf(path.name) = "unknown" THEN table
    ELSE [table EXCEPT ![KeyOf(path.name)] = path]

\* "for f in folder.glob('*.txt'): set_files(f)".  glob's order is the
\* directory's; the fold takes the files in any order.
RECURSIVE ScanAll(_, _)
ScanAll(table, paths) ==
    IF paths = {} THEN table
    ELSE LET p == CHOOSE q \in paths : TRUE
         IN  ScanAll(set_files(table, p), paths \ {p})

Glob(fsys, dir) == {p \in DOMAIN fsys : p.dir = dir /\ IsTxt(p.name)}

\* required_is_complete reads the eight required attributes in turn; one
\* that set_files never assigned has no class default and raises
\* AttributeError.  A Path is always truthy, so all([...]) is never False.
RequiredUnset(table) == {k \in Range(RequiredKeys) : table[k] = NoPath}

\* the optional accessors: Path("foo") when the attribute is None
Accessor(table, key) ==
    IF key \in OptionalKeys /\ table[key] = NoPath THEN FooPath ELSE table[key]

----------------------------------------------------------------------------
(* extractor.py: the chunked filter *)

\* mutant: the cells not in ids are blanked, the rows are not dropped
RECURSIVE row_filter_NoDrop(_, _, _)
row_filter_NoDrop(rows, ids, columns) ==
    IF columns = <<>> THEN rows
    ELSE LET c == Head(columns)
             masked == [i \in 1..Len(rows) |->
                          IF rows[i][c] \in ids THEN rows[i]
                          ELSE [rows[i] EXCEPT ![c] = NA]]
         IN  row_filter_NoDrop(masked, ids, Tail(columns))

\* Extractor.__row_filter: per column, blank the cells not in ids, then keep
\* the rows whose cell is not NaN
RECURSIVE row_filter(_, _, _)
row_filter(rows, ids, columns) ==
    IF columns = <<>> THEN rows
    ELSE LET c == Head(columns)
             masked == [i \in 1..Len(rows) |->
                          IF rows[i][c] \in ids THEN rows[i]
                          ELSE [rows[i] EXCEPT ![c] = NA]]
             Kept(r) == r[c] # NA
         IN  row_filter(SelectSeq(masked, Kept), ids, Tail(columns))

\* set(results[column].dropna().tolist())
Distinct(rows, col) == {r[col] : r \in Range(rows)} \ {NA}

EmptySets(n) == [i \in 1..n |-> {}]

\* Extractor.__filter_rows_by_custom_column: the new filesystem, the
\* returned tuple of id-sets and the exception raised, if any
filter_rows_by_custom_column(fsys, outdir, file_path, ids, columns, return_columns, write_out) ==
    IF ~Exists(fsys, file_path)
    THEN [err |-> "GtfsFileNotFound", fs |-> fsys, ret |-> <<>>]
    ELSE
    LET f == fsys[file_path]
        output_path == [dir |-> outdir, name |-> file_path.name]
    IN  IF ~(Range(columns) \subseteq f.cols)
        THEN [err |-> "KeyError", fs |-> fsys, ret |-> <<>>]
        ELSE
        LET InFile(c) == c \in f.cols
            present == SelectSeq(return_columns, InFile)
            ddf_out == row_filter(f.rows, ids, columns)
            fs1 == IF write_out
                   THEN Write(fsys, output_path, MkFile(f.cols, ddf_out))
                   ELSE fsys
            \* with write_out the id-sets are read back from the output file
            results == IF write_out THEN fs1[output_path].rows ELSE ddf_out
            final_results == [i \in 1..Len(present) |->
                                 Distinct(results, present[i])]
        IN  [err |-> "none",
             fs  |-> fs1,
             ret |-> IF Len(present) > 0
                     THEN final_results \o
                          EmptySets(Len(return_columns) - Len(present))
                     ELSE <<>>]

\* no file is being read in partitions
NoPool == [parts |-> <<>>, done |-> <<>>, order |-> <<>>, workers |-> 0]

----------------------------------------------------------------------------
(* The arguments of the two drivers *)

\* Bbox(min_lon, min_lat, max_lon, max_lat)
TheBbox == [min_lon |-> 1, min_lat |-> 3, max_lon |-> 2, max_lat |-> 4]

\* extract_by_date(start_date, end_date)
TheWindow == [start_date |-> 2, end_date |-> 3]

NoIds == [stop_ids_in_bbox |-> {}, trip_ids |-> {}, route_ids_to_keep |-> {},
          service_ids_to_keep |-> {}, shape_ids_to_keep |-> {},
          agency_ids_to_keep |-> {}, stop_ids_to_keep |-> {}]

----------------------------------------------------------------------------
(* gtfs.py / extractor.py: construction *)

\* mutant: the archive is unpacked without its shapes.txt
extractall_NoShapes(fsys) ==
    LET unpacked == {[dir |-> "tmp", name |-> p.name] :
                        p \in {q \in DOMAIN fsys :
                                  q.dir = "zip" /\ q.name # "shapes.txt"}}
    IN  [p \in DOMAIN fsys \cup unpacked |->
            IF p \in unpacked THEN fsys[[dir |-> "zip", name |-> p.name]]
            ELSE fsys[p]]

\* zip_ref.extractall(extract_path)
extractall(fsys) ==
    LET unpacked == {[dir |-> "tmp", name |-> p.name] :
                        p \in {q \in DOMAIN fsys : q.dir = "zip"}}
    IN  [p \in DOMAIN fsys \cup unpacked |->
            IF p \in unpacked THEN fsys[[dir |-> "zip", name |-> p.name]]
            ELSE fsys[p]]

\* TemporaryDirectory.cleanup(): the scratch directory and all it holds
\* mutant: the release of the scratch directory also removes the output files
cleanup_Outputs(fsys) == [p \in {q \in DOMAIN fsys : q.dir \notin {"tmp", output_folder}} |-> fsys[p]]

cleanup(fsys) == [p \in {q \in DOMAIN fsys : q.dir # "tmp"} |-> fsys[p]]

\* GTFS._extract_gtfs_file: the scratch directory is made first, then the
\* suffix is tested, then the archive is unpacked
extract_gtfs_file(fsys, obj) ==
    IF obj = "file" THEN [err |-> "Exception", fs |-> fsys]
    ELSE IF obj = "badzip" THEN [err |-> "BadZipFile", fs |-> fsys]
    ELSE [err |-> "none", fs |-> extractall(fsys)]

\* GTFS.__init__
gtfs_init(fsys, ds, obj, folder) ==
    LET is_file == obj # "folder"
        ex == IF is_file THEN extract_gtfs_file(fsys, obj)
              ELSE [err |-> "none", fs |-> fsys]
        scanned == IF is_file THEN "tmp" ELSE folder
        table == ScanAll(EmptyGtfsFiles, Glob(ex.fs, scanned))
        begun == [err |-> "none", fs |-> ex.fs,
                  dirs |-> IF is_file THEN ds \cup {"tmp"} ELSE ds,
                  folder |-> scanned, table |-> EmptyGtfsFiles,
                  ctx |-> IF is_file THEN "open" ELSE "None"]
    IN  IF ex.err # "none" THEN [begun EXCEPT !.err = ex.err, !.folder = folder]
        ELSE IF scanned \notin begun.dirs
        THEN [begun EXCEPT !.err = "FileNotFoundError"]
        ELSE IF RequiredUnset(table) # {}
        THEN [begun EXCEPT !.err = "AttributeError", !.table = table]
        ELSE [begun EXCEPT !.table = table]

\* GTFS.__init__ followed by Extractor.__init__
ExtractorInit ==
    /\ pc = "new" /\ driver \in {"bbox", "date"}
    /\ LET g == gtfs_init(fs, dirs, input_object, input_folder)
       IN  /\ fs' = g.fs
           /\ gtfs_files' = g.table
           /\ input_folder' = g.folder
           /\ temporary_folder_context' = g.ctx
           /\ IF g.err # "none"
              THEN pc' = "failed" /\ err' = g.err /\ dirs' = g.dirs
              ELSE /\ pc' = "extract" /\ err' = "none"
                   /\ dirs' = g.dirs \cup {output_folder}
    /\ UNCHANGED <<driver, run, output_folder, loc, returned, call, input_object,
                   ambient>>

\* GTFS.__init__ on its own, as the metadata command calls it
GTFSInit ==
    /\ pc = "new" /\ driver = "metadata"
    /\ LET g == gtfs_init(fs, dirs, input_object, input_folder)
       IN  /\ fs' = g.fs
           /\ gtfs_files' = g.table
           /\ input_folder' = g.folder
           /\ temporary_folder_context' = g.ctx
           /\ dirs' = g.dirs
           /\ IF g.err # "none"
              THEN pc' = "failed" /\ err' = g.err
              ELSE pc' = "service_date_range" /\ err' = "none"
    /\ UNCHANGED <<driver, run, output_folder, loc, returned, call, input_object,
                   ambient>>

\* GTFS.close, called by the commands after the driver returned
Close ==
    /\ pc = "done"
    /\ pc' = "closed"
    /\ IF temporary_folder_context = "open"
       THEN /\ temporary_folder_context' = "cleaned"
            /\ fs' = cleanup(fs)
            /\ dirs' = dirs \ {"tmp"}
       ELSE UNCHANGED <<temporary_folder_context, fs, dirs>>
    /\ UNCHANGED <<driver, run, gtfs_files, input_folder, output_folder, loc, err,
                   returned, call, input_object, ambient>>

\* mutant: the scratch directory has no finalizer
Finalize_Never ==
    /\ pc = "failed"
    /\ temporary_folder_context = "open"
    /\ UNCHANGED vars

\* The exception left the command: the extractor is garbage, and the
\* finalizer that tempfile.TemporaryDirectory() registered for the scratch
\* directory runs (at collection, at the latest when the interpreter exits).
Finalize ==
    /\ pc = "failed"
    /\ temporary_folder_context = "open"
    /\ temporary_folder_context' = "cleaned"
    /\ fs' = cleanup(fs)
    /\ dirs' = dirs \ {"tmp"}
    /\ UNCHANGED <<pc, driver, run, gtfs_files, input_folder, output_folder, loc,
                   err, returned, call, input_object, ambient>>

----------------------------------------------------------------------------
(* extractor.py: the passes *)

\* a positional read (ret[0], or unpacking three values) of a tuple that is
\* too short
Indexed(res, n, exc) ==
    IF res.err = "none" /\ Len(res.ret) < n THEN [res EXCEPT !.err = exc]
    ELSE res

\* the end of a pass: the exception propagates out of the driver, or the
\* driver goes on to its next pass
Ended(res, next_pc, new_loc) ==
    /\ fs' = res.fs
    /\ IF res.err = "none"
       THEN pc' = next_pc /\ loc' = new_loc /\ err' = "none"
       ELSE pc' = "failed" /\ loc' = loc /\ err' = res.err
    /\ UNCHANGED <<driver, run, dirs, gtfs_files, input_folder, output_folder,
                   returned, call, input_object, temporary_folder_context,
                   ambient>>

Filter(file_path, ids, columns, return_columns, write_out) ==
    filter_rows_by_custom_column(fs, output_folder, file_path, ids, columns,
                                 return_columns, write_out)

\* Extractor.__filter_stops_by_bbox: blank stop_id outside the bbox, dropna
filter_stops_by_bbox(rows, bbox) ==
    LET masked == [i \in 1..Len(rows) |->
                     IF Contains(bbox, rows[i].stop_lat, rows[i].stop_lon)
                     THEN rows[i] ELSE [rows[i] EXCEPT !.stop_id = NA]]
        Kept(r) == r.stop_id # NA
    IN  SelectSeq(masked, Kept)

\* Extractor._get_stops_in_bbox: no existence check before read_csv
get_stops_in_bbox(fsys, table, bbox) ==
    LET path == table["stops"] IN
    IF ~Exists(fsys, path)
    THEN [err |-> "FileNotFoundError", fs |-> fsys, ret |-> <<>>]
    ELSE IF ~({"stop_id", "stop_lat", "stop_lon"} \subseteq fsys[path].cols)
    THEN [err |-> "ValueError", fs |-> fsys, ret |-> <<>>]
    ELSE [err |-> "none", fs |-> fsys,
          ret |-> <<Distinct(filter_stops_by_bbox(fsys[path].rows, bbox),
                             "stop_id")>>]

GetStopsInBbox ==
    /\ pc = "extract" /\ driver = "bbox"
    /\ LET res == get_stops_in_bbox(fs, gtfs_files, TheBbox)
       IN  Ended(res, "_get_trips_of_stop_times",
                 [loc EXCEPT !.stop_ids_in_bbox = res.ret[1]])

GetTripsOfStopTimes ==
    /\ pc = "_get_trips_of_stop_times"
    /\ LET res == Indexed(Filter(gtfs_files["stop_times"], loc.stop_ids_in_bbox,
                                 <<"stop_id">>, <<"trip_id">>, FALSE),
                          1, "IndexError")
       IN  Ended(res, "_filter_trips", [loc EXCEPT !.trip_ids = res.ret[1]])

FilterTrips ==
    /\ pc = "_filter_trips"
    /\ LET res == Indexed(Filter(gtfs_files["trips"], loc.trip_ids,
                                 <<"trip_id">>,
                                 <<"route_id", "service_id", "shape_id">>, TRUE),
                          3, "ValueError")
       IN  Ended(res, "_filter_routes",
                 [loc EXCEPT !.route_ids_to_keep = res.ret[1],
                             !.service_ids_to_keep = res.ret[2],
                             !.shape_ids_to_keep = res.ret[3]])

FilterRoutes ==
    /\ pc = "_filter_routes"
    /\ LET res == Indexed(Filter(gtfs_files["routes"], loc.route_ids_to_keep,
                                 <<"route_id">>, <<"agency_id">>, TRUE),
                          1, "IndexError")
       IN  Ended(res, "_filter_agencies",
                 [loc EXCEPT !.agency_ids_to_keep = res.ret[1]])

FilterAgencies ==
    /\ pc = "_filter_agencies"
    /\ LET res == Filter(gtfs_files["agency"], loc.agency_ids_to_keep,
                         <<"agency_id">>, <<>>, TRUE)
       IN  Ended(res, "_filter_shapes", loc)

\* the result of a pass that was skipped
Skipped == [err |-> "none", fs |-> fs, ret |-> <<>>]

FilterShapes ==
    /\ pc = "_filter_shapes"
    /\ LET path == Accessor(gtfs_files, "shapes")
           res == IF ~Exists(fs, path) THEN Skipped
                  ELSE IF loc.shape_ids_to_keep # {}
                  THEN Filter(path, loc.shape_ids_to_keep, <<"shape_id">>,
                              <<>>, TRUE)
                  ELSE Skipped
       IN  Ended(res, "_filter_calendar_dates_using_services", loc)

FilterCalendarDatesUsingServices ==
    /\ pc = "_filter_calendar_dates_using_services"
    /\ LET res == Filter(gtfs_files["calendar_dates"], loc.service_ids_to_keep,
                         <<"service_id">>, <<>>, TRUE)
       IN  Ended(res, "_filter_calendar_using_services", loc)

FilterCalendarUsingServices ==
    /\ pc = "_filter_calendar_using_services"
    /\ LET res == Filter(gtfs_files["calendar"], loc.service_ids_to_keep,
                         <<"service_id">>, <<>>, TRUE)
       IN  Ended(res, "_filter_frequencies_using_trips", loc)

FilterFrequenciesUsingTrips ==
    /\ pc = "_filter_frequencies_using_trips"
    /\ LET path == Accessor(gtfs_files, "frequencies")
           res == IF Exists(fs, path)
                  THEN Filter(path, loc.trip_ids, <<"trip_id">>, <<>>, TRUE)
                  ELSE Skipped
       IN  Ended(res, "_filter_stop_times_using_trips", loc)

FilterStopTimesUsingTrips ==
    /\ pc = "_filter_stop_times_using_trips"
    /\ LET res == Indexed(Filter(gtfs_files["stop_times"], loc.trip_ids,
                                 <<"trip_id">>, <<"stop_id">>, TRUE),
                          1, "IndexError")
       IN  Ended(res, "_filter_stops",
                 [loc EXCEPT !.stop_ids_to_keep = res.ret[1]])

\* mutant: the stops are filtered by the trip ids
FilterStops_TripIds ==
    /\ pc = "_filter_stops"
    /\ LET res == Filter(gtfs_files["stops"], loc.trip_ids,
                         <<"stop_id">>, <<>>, TRUE)
       IN  Ended(res, "_filter_transfers_using_stops", loc)

\* mutant: the stops are filtered by the stops of the bbox, not by the stops
\* the kept stop_times name
FilterStops_BboxIds ==
    /\ pc = "_filter_stops"
    /\ LET res == Filter(gtfs_files["stops"], loc.stop_ids_in_bbox,
                         <<"stop_id">>, <<>>, TRUE)
       IN  Ended(res, "_filter_transfers_using_stops", loc)

FilterStops ==
    /\ pc = "_filter_stops"
    /\ LET res == Filter(gtfs_files["stops"], loc.stop_ids_to_keep,
                         <<"stop_id">>, <<>>, TRUE)
       IN  Ended(res, "_filter_transfers_using_stops", loc)

\* mutant: transfers are filtered by from_stop_id alone
FilterTransfersUsingStops_FromOnly ==
    /\ pc = "_filter_transfers_using_stops"
    /\ LET path == Accessor(gtfs_files, "transfers")
           res == IF Exists(fs, path)
                  THEN Filter(path, loc.stop_ids_to_keep,
                              <<"from_stop_id">>, <<>>, TRUE)
                  ELSE Skipped
       IN  Ended(res, "copyfile", loc)

FilterTransfersUsingStops ==
    /\ pc = "_filter_transfers_using_stops"
    /\ LET path == Accessor(gtfs_files, "transfers")
           res == IF Exists(fs, path)
                  THEN Filter(path, loc.stop_ids_to_keep,
                              <<"from_stop_id", "to_stop_id">>, <<>>, TRUE)
                  ELSE Skipped
       IN  Ended(res, "copyfile", loc)

\* shutil.copyfile(feed_info, output_folder / feed_info.name)
copyfile(fsys, src, dst) ==
    IF src = dst THEN [err |-> "SameFileError", fs |-> fsys, ret |-> <<>>]
    ELSE IF ~Exists(fsys, src)
    THEN [err |-> "FileNotFoundError", fs |-> fsys, ret |-> <<>>]
    ELSE [err |-> "none", fs |-> Write(fsys, dst, fsys[src]), ret |-> <<>>]

CopyFeedInfo ==
    /\ pc = "copyfile"
    /\ LET src == gtfs_files["feed_info"]
           res == copyfile(fs, src, [dir |-> output_folder, name |-> src.name])
       IN  Ended(res, "_get_output_files", loc)

\* Extractor._get_output_files: every *.txt of the output folder is
\* registered in the file table and listed
GetOutputFiles ==
    /\ pc = "_get_output_files"
    /\ LET files == Glob(fs, output_folder)
       IN  /\ gtfs_files' = ScanAll(gtfs_files, files)
           /\ returned' = files
    /\ pc' = "done"
    /\ UNCHANGED <<driver, run, fs, dirs, input_folder, output_folder, loc, err,
                   call, input_object, temporary_folder_context, ambient>>

----------------------------------------------------------------------------
(* extractor.py: the two date passes of extract_by_date *)

Parsable(rows, cols) == \A r \in Range(rows) : \A c \in cols : CanParseDate(r[c])

\* a row as to_csv writes it after parse_dates turned the columns cols into
\* timestamps
WithTimestamps(r, cols) ==
    [c \in DOMAIN r |->
        IF c \in cols THEN FormatTimestamp(parse_date_from_str(r[c])) ELSE r[c]]

Reformat(rows, cols) == [i \in 1..Len(rows) |-> WithTimestamps(rows[i], cols)]

\* set(results.service_id): no dropna
ServiceIds(rows) == {r.service_id : r \in Range(rows)}

\* mutant: a row is kept when its period overlaps the window
filter_calendar_by_dates_Overlap(fsys, outdir, table, start_date, end_date) ==
    LET path == table["calendar"] IN
    IF ~Exists(fsys, path)
    THEN [err |-> "FileNotFoundError", fs |-> fsys, ret |-> <<>>]
    ELSE
    LET f == fsys[path]
        InWindow(r) == /\ parse_date_from_str(r.start_date) <= end_date
                       /\ parse_date_from_str(r.end_date) >= start_date
        results == SelectSeq(f.rows, InWindow)
        output_path == [dir |-> outdir, name |-> table["calendar"].name]
    IN  IF \/ ~({"start_date", "end_date"} \subseteq f.cols)
           \/ ~Parsable(f.rows, {"start_date", "end_date"})
        THEN [err |-> "ValueError", fs |-> fsys, ret |-> <<>>]
        ELSE LET fs1 == Write(fsys, output_path,
                              MkFile(f.cols, Reformat(results,
                                                      {"start_date", "end_date"})))
             IN  IF "service_id" \notin f.cols
                 THEN [err |-> "AttributeError", fs |-> fs1, ret |-> <<>>]
                 ELSE [err |-> "none", fs |-> fs1, ret |-> <<ServiceIds(results)>>]

\* Extractor._filter_calendar_by_dates
filter_calendar_by_dates(fsys, outdir, table, start_date, end_date) ==
    LET path == table["calendar"] IN
    IF ~Exists(fsys, path)
    THEN [err |-> "FileNotFoundError", fs |-> fsys, ret |-> <<>>]
    ELSE
    LET f == fsys[path]
        InWindow(r) == /\ parse_date_from_str(r.start_date) >= start_date
                       /\ parse_date_from_str(r.end_date) <= end_date
        results == SelectSeq(f.rows, InWindow)
        output_path == [dir |-> outdir, name |-> table["calendar"].name]
    IN  IF \/ ~({"start_date", "end_date"} \subseteq f.cols)
           \/ ~Parsable(f.rows, {"start_date", "end_date"})
        THEN [err |-> "ValueError", fs |-> fsys, ret |-> <<>>]
        ELSE LET fs1 == Write(fsys, output_path,
                              MkFile(f.cols, Reformat(results,
                                                      {"start_date", "end_date"})))
             IN  IF "service_id" \notin f.cols
                 THEN [err |-> "AttributeError", fs |-> fs1, ret |-> <<>>]
                 ELSE [err |-> "none", fs |-> fs1, ret |-> <<ServiceIds(results)>>]

\* Extractor._filter_calendar_dates_by_dates: the output path is built from
\* the name of the calendar file
filter_calendar_dates_by_dates(fsys, outdir, table, start_date, end_date) ==
    LET path == table["calendar_dates"] IN
    IF ~Exists(fsys, path)
    THEN [err |-> "none", fs |-> fsys, ret |-> <<{}>>]
    ELSE
    LET f == fsys[path]
        InWindow(r) == /\ parse_date_from_str(r.date) >= start_date
                       /\ parse_date_from_str(r.date) <= end_date
        results == SelectSeq(f.rows, InWindow)
        output_path == [dir |-> outdir, name |-> table["calendar"].name]
    IN  IF "date" \notin f.cols \/ ~Parsable(f.rows, {"date"})
        THEN [err |-> "ValueError", fs |-> fsys, ret |-> <<>>]
        ELSE LET fs1 == Write(fsys, output_path,
                              MkFile(f.cols, Reformat(results, {"date"})))
             IN  IF "service_id" \notin f.cols
                 THEN [err |-> "AttributeError", fs |-> fs1, ret |-> <<>>]
                 ELSE [err |-> "none", fs |-> fs1, ret |-> <<ServiceIds(results)>>]

FilterCalendarByDates ==
    /\ pc = "extract" /\ driver = "date"
    /\ LET res == filter_calendar_by_dates(fs, output_folder, gtfs_files,
                      TheWindow.start_date, TheWindow.end_date)
       IN  Ended(res, "_filter_calendar_dates_by_dates",
                 [loc EXCEPT !.service_ids_to_keep = res.ret[1]])

\* mutant: the service ids of calendar_dates are not added
FilterCalendarDatesByDates_NoUpdate ==
    /\ pc = "_filter_calendar_dates_by_dates"
    /\ LET res == filter_calendar_dates_by_dates(fs, output_folder, gtfs_files,
                      TheWindow.start_date, TheWindow.end_date)
       IN  Ended(res, "_filter_trips_by_service_ids", loc)

\* service_ids_to_keep.update(service_ids_to_keep_addition)
FilterCalendarDatesByDates ==
    /\ pc = "_filter_calendar_dates_by_dates"
    /\ LET res == filter_calendar_dates_by_dates(fs, output_folder, gtfs_files,
                      TheWindow.start_date, TheWindow.end_date)
       IN  Ended(res, "_filter_trips_by_service_ids",
                 [loc EXCEPT !.service_ids_to_keep = @ \cup res.ret[1]])

FilterTripsByServiceIds ==
    /\ pc = "_filter_trips_by_service_ids"
    /\ LET res == Indexed(Filter(gtfs_files["trips"], loc.service_ids_to_keep,
                                 <<"service_id">>,
                                 <<"route_id", "trip_id", "shape_id">>, TRUE),
                          3, "ValueError")
       IN  Ended(res, "_filter_routes",
                 [loc EXCEPT !.route_ids_to_keep = res.ret[1],
                             !.trip_ids = res.ret[2],
                             !.shape_ids_to_keep = res.ret[3]])

----------------------------------------------------------------------------
(* gtfs.py: the metadata probe *)

Minimum(S) == CHOOSE x \in S : \A y \in S : x <= y
Maximum(S) == CHOOSE x \in S : \A y \in S : x >= y

\* Timestamp.strftime("%Y-%m-%d %H:%M:%S")
strftime(day) == <<"Y-m-d H:M:S", day>>

\* ddf.read_csv splits the file into partitions; here at row cut
Partitions(rows, cut) ==
    <<SubSeq(rows, 1, cut), SubSeq(rows, cut + 1, Len(rows))>>

\* the partitions that hold rows
Filled(parts) == {k \in DOMAIN parts : parts[k] # <<>>}

\* column.min() of dask: the minimum of each partition that has rows, then
\* the minimum of those
ReduceMin(parts, col) ==
    Minimum({Minimum({parse_date_from_str(r[col]) : r \in Range(parts[i])}) :
                i \in Filled(parts)})

\* column.max() of dask, likewise
ReduceMax(parts, col) ==
    Maximum({Maximum({parse_date_from_str(r[col]) : r \in Range(parts[i])}) :
                i \in Filled(parts)})

\* mutant: the start of the range is read from the first row
service_date_range_FirstRow(fsys, table, cut) ==
    LET path == table["calendar"] IN
    IF ~Exists(fsys, path)
    THEN [err |-> "FileNotFoundError", fs |-> fsys, ret |-> <<>>]
    ELSE
    LET f == fsys[path] IN
    IF \/ ~({"start_date", "end_date"} \subseteq f.cols)
       \/ ~Parsable(f.rows, {"start_date", "end_date"})
       \/ f.rows = <<>>
    THEN [err |-> "ValueError", fs |-> fsys, ret |-> <<>>]
    ELSE LET parts == Partitions(f.rows, cut)
             xmin == parse_date_from_str(f.rows[1].start_date)
             xmax == ReduceMax(parts, "end_date")
         IN  [err |-> "none", fs |-> fsys, ret |-> <<strftime(xmin), strftime(xmax)>>]

\* GTFS.service_date_range; the minimum of no rows is NaT, whose strftime
\* raises
service_date_range(fsys, table, cut) ==
    LET path == table["calendar"] IN
    IF ~Exists(fsys, path)
    THEN [err |-> "FileNotFoundError", fs |-> fsys, ret |-> <<>>]
    ELSE
    LET f == fsys[path] IN
    IF \/ ~({"start_date", "end_date"} \subseteq f.cols)
       \/ ~Parsable(f.rows, {"start_date", "end_date"})
       \/ f.rows = <<>>
    THEN [err |-> "ValueError", fs |-> fsys, ret |-> <<>>]
    ELSE LET parts == Partitions(f.rows, cut)
             xmin == ReduceMin(parts, "start_date")
             xmax == ReduceMax(parts, "end_date")
         IN  [err |-> "none", fs |-> fsys, ret |-> <<strftime(xmin), strftime(xmax)>>]

\* main.metadata: dates = gtfs.service_date_range()
ServiceDateRange ==
    /\ pc = "service_date_range"
    /\ \E cut \in 0..Len(FileAt(fs, gtfs_files["calendar"]).rows) :
       LET res == service_date_range(fs, gtfs_files, cut)
       IN  /\ fs' = res.fs
           /\ IF res.err = "none"
              THEN pc' = "done" /\ returned' = res.ret /\ err' = "none"
              ELSE pc' = "failed" /\ returned' = returned /\ err' = res.err
    /\ UNCHANGED <<driver, run, dirs, gtfs_files, input_folder, output_folder,
                   loc, call, input_object, temporary_folder_context, ambient>>

----------------------------------------------------------------------------
(* main.py: the default of --cores *)

\* An optional integer is <<>> (None, or not yet assigned) or <<n>>.

\* main.py, module level: cpu_count = os.cpu_count(), then the adjustment
module_cpu_count(n) ==
    IF n = <<>> \/ n = <<1>> THEN <<1>> ELSE <<n[1] - 1>>

\* main(): cores = typer.Option(cpu_count - 1 if cpu_count else 1)
cores_default(c) == IF c # <<>> /\ c # <<0>> THEN <<c[1] - 1>> ELSE <<1>>

ImportMain ==
    /\ pc = "import"
    /\ pc' = "main"
    /\ cpu_count' = module_cpu_count(os_cpu_count)
    /\ UNCHANGED <<driver, run, fs, dirs, gtfs_files, input_folder, output_folder,
                   loc, err, returned, call, input_object,
                   temporary_folder_context, cancel, events, os_cpu_count, cores,
                   pool>>

\* the callback stores cores in ctx.obj.cpu_count, which the commands hand
\* to the extractor
MainCallback ==
    /\ pc = "main"
    /\ pc' = "command"
    /\ cores' = cores_default(cpu_count)
    /\ UNCHANGED <<driver, run, fs, dirs, gtfs_files, input_folder, output_folder,
                   loc, err, returned, call, input_object,
                   temporary_folder_context, cancel, events, os_cpu_count,
                   cpu_count, pool>>

----------------------------------------------------------------------------
(* The environment of a running driver *)

\* the positions of a driver between two of its passes
DriverPcs ==
    {"extract", "_get_trips_of_stop_times", "_filter_trips",
     "_filter_calendar_dates_by_dates", "_filter_trips_by_service_ids",
     "_filter_routes", "_filter_agencies", "_filter_shapes",
     "_filter_calendar_dates_using_services", "_filter_calendar_using_services",
     "_filter_frequencies_using_trips", "_filter_stop_times_using_trips",
     "_filter_stops", "_filter_transfers_using_stops", "copyfile",
     "_get_output_files"}

\* another process removes a file of the scanned folder after the
\* constructor has registered it and before the first pass reads anything;
\* the scratch directory of an archive is private to the process
Unlink ==
    /\ pc = "extract" /\ run = 1
    /\ input_object = "folder"
    /\ events > 0
    /\ \E p \in DOMAIN fs :
          /\ p.dir = input_folder
          /\ fs' = [q \in DOMAIN fs \ {p} |-> fs[q]]
    /\ events' = events - 1
    /\ UNCHANGED <<pc, driver, run, dirs, gtfs_files, input_folder, output_folder,
                   loc, err, returned, call, input_object,
                   temporary_folder_context, cancel, os_cpu_count, cpu_count,
                   cores, pool>>

\* the cancel signal is raised while a driver is between two passes
RaiseCancel ==
    /\ pc \in DriverPcs
    /\ events > 0
    /\ ~cancel
    /\ cancel' = TRUE
    /\ events' = events - 1
    /\ UNCHANGED <<pc, driver, run, fs, dirs, gtfs_files, input_folder,
                   output_folder, loc, err, returned, call, input_object,
                   temporary_folder_context, os_cpu_count, cpu_count, cores,
                   pool>>

----------------------------------------------------------------------------
(* The input feeds the model is run on *)

AgencyRow(a) == [agency_id |-> a]
RouteRow(r, a) == [route_id |-> r, agency_id |-> a]
TripRow(t, r, sv, sh) ==
    [route_id |-> r, service_id |-> sv, trip_id |-> t, shape_id |-> sh]
StopTimeRow(t, s) == [trip_id |-> t, stop_id |-> s]
StopRow(s, lat, lon) == [stop_id |-> s, stop_lat |-> lat, stop_lon |-> lon]
CalendarRow(sv, from, to) ==
    [service_id |-> sv, start_date |-> <<"ymd", from>>, end_date |-> <<"ymd", to>>]
CalendarDateRow(sv, d) == [service_id |-> sv, date |-> <<"ymd", d>>]
ShapeRow(sh) == [shape_id |-> sh]
FrequencyRow(t) == [trip_id |-> t]
TransferRow(a, b) == [from_stop_id |-> a, to_stop_id |-> b]
FeedInfoRow(v) == [feed_version |-> v]

Header(name) ==
    CASE name = "agency.txt" -> {"agency_id"}
      [] name = "routes.txt" -> {"route_id", "agency_id"}
      [] name = "trips.txt" -> {"route_id", "service_id", "trip_id", "shape_id"}
      [] name = "stop_times.txt" -> {"trip_id", "stop_id"}
      [] name = "stops.txt" -> {"stop_id", "stop_lat", "stop_lon"}
      [] name = "calendar.txt" -> {"service_id", "start_date", "end_date"}
      [] name = "calendar_dates.txt" -> {"service_id", "date"}
      [] name = "shapes.txt" -> {"shape_id"}
      [] name = "frequencies.txt" -> {"trip_id"}
      [] name = "transfers.txt" -> {"from_stop_id", "to_stop_id"}
      [] name = "feed_info.txt" -> {"feed_version"}

\* a feed whose references are all closed; s1 lies on the bbox's lower
\* corner, s2 outside; service sv1 spans exactly the window
BaseRows(name) ==
    CASE name = "agency.txt" -> <<AgencyRow("a1"), AgencyRow("a2")>>
      [] name = "routes.txt" -> <<RouteRow("r1", "a1"), RouteRow("r2", "a2")>>
      [] name = "trips.txt" -> <<TripRow("t1", "r1", "sv1", "sh1"),
                                 TripRow("t2", "r2", "sv2", NA)>>
      [] name = "stop_times.txt" -> <<StopTimeRow("t1", "s1"),
                                      StopTimeRow("t1", "s2"),
                                      StopTimeRow("t2", "s2")>>
      [] name = "stops.txt" -> <<StopRow("s1", 3, 1), StopRow("s2", 5, 2)>>
      [] name = "calendar.txt" -> <<CalendarRow("sv1", 2, 3),
                                    CalendarRow("sv2", 1, 3)>>
      [] name = "calendar_dates.txt" -> <<CalendarDateRow("sv2", 2),
                                          CalendarDateRow("sv1", 4)>>
      [] name = "shapes.txt" -> <<ShapeRow("sh1"), ShapeRow("sh2")>>
      [] name = "frequencies.txt" -> <<FrequencyRow("t1"), FrequencyRow("t2")>>
      [] name = "transfers.txt" -> <<TransferRow("s1", "s2"),
                                     TransferRow("s2", "s2")>>
      [] name = "feed_info.txt" -> <<FeedInfoRow("v1")>>

BaseFeed == [n \in TxtNames |-> MkFile(Header(n), BaseRows(n))]

\* the rows a varied table is built from: cells on and off the bbox edges
\* and the window bounds, empty cells, and ids no other file knows
Universe(name) ==
    CASE name = "agency.txt" -> {AgencyRow("a1"), AgencyRow("a2"), AgencyRow(NA)}
      [] name = "routes.txt" ->
            {RouteRow("r1", "a1"), RouteRow("r2", "a2"), RouteRow("r2", NA),
             RouteRow("r1", "a3"), RouteRow(NA, "a1")}
      [] name = "trips.txt" ->
            {TripRow("t1", "r1", "sv1", "sh1"), TripRow("t2", "r2", "sv2", NA),
             TripRow("t2", "r1", "sv1", "sh2"), TripRow(NA, "r1", "sv1", "sh1"),
             TripRow("t1", "r3", NA, "sh3")}
      [] name = "stop_times.txt" ->
            {StopTimeRow("t1", "s1"), StopTimeRow("t1", "s2"),
             StopTimeRow("t2", "s2"), StopTimeRow("t3", "s1"),
             StopTimeRow(NA, "s1"), StopTimeRow("t2", NA)}
      [] name = "stops.txt" ->
            {StopRow("s1", 3, 1), StopRow("s1", 2, 1), StopRow("s1", 3, 0),
             StopRow("s2", 4, 2), StopRow("s2", 5, 2), StopRow("s2", 4, 3)}
      [] name = "calendar.txt" ->
            {CalendarRow("sv1", 2, 3), CalendarRow("sv2", 1, 3),
             CalendarRow("sv2", 2, 4), CalendarRow("sv1", 3, 3),
             CalendarRow(NA, 2, 2)}
      [] name = "calendar_dates.txt" ->
            {CalendarDateRow("sv1", 2), CalendarDateRow("sv2", 3),
             CalendarDateRow("sv2", 1), CalendarDateRow("sv1", 4),
             CalendarDateRow(NA, 2)}
      [] name = "shapes.txt" -> {ShapeRow("sh1"), ShapeRow("sh2"), ShapeRow(NA)}
      [] name = "frequencies.txt" ->
            {FrequencyRow("t1"), FrequencyRow("t2"), FrequencyRow("t3"),
             FrequencyRow(NA)}
      [] name = "transfers.txt" ->
            {TransferRow("s1", "s2"), TransferRow("s2", "s1"),
             TransferRow("s1", "s1"), TransferRow("s2", "s3"),
             TransferRow("s1", NA)}

\* every table of at most MaxRows rows
Tables(rows) == UNION {[1..n -> rows] : n \in 0..MaxRows}

\* a few other contents for the second file of a pair
Variants(name) ==
    {BaseRows(name)} \cup
    CASE name = "agency.txt" -> {<<AgencyRow("a1")>>, <<>>}
      [] name = "routes.txt" ->
            {<<RouteRow("r1", "a1"), RouteRow("r2", "a1")>>,
             <<RouteRow("r1", NA), RouteRow("r2", "a2")>>,
             <<RouteRow("r2", "a2")>>}
      [] name = "trips.txt" ->
            {<<TripRow("t1", "r1", "sv1", "sh1")>>,
             <<TripRow("t1", "r1", "sv2", NA), TripRow("t2", "r2", "sv2", "sh2")>>,
             <<TripRow("t2", "r2", "sv1", "sh1"), TripRow("t1", "r1", "sv1", "sh1"),
               TripRow("t3", "r1", "sv2", "sh1")>>}
      [] name = "stop_times.txt" ->
            {<<StopTimeRow("t1", "s1"), StopTimeRow("t2", "s1")>>,
             <<StopTimeRow("t2", "s2"), StopTimeRow("t1", "s2"),
               StopTimeRow("t2", "s1")>>,
             <<>>}
      [] name = "stops.txt" ->
            {<<StopRow("s1", 3, 1), StopRow("s2", 4, 2)>>,
             <<StopRow("s2", 4, 3), StopRow("s1", 2, 1)>>,
             <<StopRow("s2", 4, 2)>>}
      [] name = "calendar.txt" ->
            {<<CalendarRow("sv1", 1, 4), CalendarRow("sv2", 2, 2)>>,
             <<CalendarRow("sv2", 3, 3)>>, <<>>}
      [] name = "calendar_dates.txt" ->
            {<<CalendarDateRow("sv1", 3)>>, <<CalendarDateRow("sv2", 1)>>, <<>>}

\* the pairs <<file varied over Tables, file varied over Variants>>
Pairs ==
    {<<"stops.txt", "stop_times.txt">>, <<"stop_times.txt", "stops.txt">>,
     <<"stop_times.txt", "trips.txt">>, <<"trips.txt", "stop_times.txt">>,
     <<"calendar.txt", "calendar_dates.txt">>,
     <<"calendar_dates.txt", "calendar.txt">>,
     <<"trips.txt", "calendar_dates.txt">>,
     <<"routes.txt", "agency.txt">>, <<"agency.txt", "routes.txt">>,
     <<"routes.txt", "trips.txt">>, <<"shapes.txt", "trips.txt">>,
     <<"frequencies.txt", "trips.txt">>, <<"transfers.txt", "stops.txt">>}

PairFeeds ==
    UNION {{[BaseFeed EXCEPT ![ps[1]] = MkFile(Header(ps[1]), t),
                             ![ps[2]] = MkFile(Header(ps[2]), v)] :
               t \in Tables(Universe(ps[1])), v \in Variants(ps[2])} :
           ps \in Pairs}

\* feeds that lack some of their files
Without(feed, names) == [n \in TxtNames \ names |-> feed[n]]

PartialFeeds == {Without(BaseFeed, names) : names \in SUBSET TxtNames}

\* what the working directory may hold under the name "foo": nothing, a file
\* that is no GTFS table, a table with the columns of an optional file
FooFiles == {<<>>, <<MkFile({"note"}, <<>>)>>,
             <<MkFile({"shape_id", "trip_id", "from_stop_id", "to_stop_id"},
                      <<[shape_id |-> "sh1", trip_id |-> "t1",
                         from_stop_id |-> "s1", to_stop_id |-> "s2"]>>)>>}

NoCall == [file_path |-> NoPath, ids |-> {}, columns |-> <<>>]

\* the feed in the input folder; foo is empty or holds the file at ./foo
InitFs(feed, foo) ==
    [p \in [dir : {"in"}, name : DOMAIN feed] \cup
            (IF foo = <<>> THEN {} ELSE {FooPath}) |->
        IF p = FooPath THEN foo[1] ELSE feed[p.name]]

\* an archive of the feed, and the same feed unpacked in the input folder
ArchiveFs(feed) == [p \in [dir : {"zip", "in"}, name : DOMAIN feed] |-> feed[p.name]]

\* a filesystem without files
EmptyFs == [p \in {} |-> NoFile]

\* a table without one of its columns
Drop(file, col) ==
    MkFile(file.cols \ {col},
           [i \in 1..Len(file.rows) |-> [c \in file.cols \ {col} |-> file.rows[i][c]]])

\* feeds with a file that lacks a column GTFS makes optional
HeaderFeeds ==
    {[BaseFeed EXCEPT !["routes.txt"] = Drop(@, "agency_id")],
     [BaseFeed EXCEPT !["routes.txt"] = Drop(@, "agency_id"),
                      !["stops.txt"] = MkFile(Header("stops.txt"),
                                              <<StopRow("s2", 5, 2)>>)],
     [BaseFeed EXCEPT !["trips.txt"] = Drop(@, "shape_id")]}

VariantNames ==
    {"agency.txt", "routes.txt", "trips.txt", "stop_times.txt", "stops.txt",
     "calendar.txt", "calendar_dates.txt"}

\* the feeds handed in as an archive
ArchiveFeeds ==
    UNION {{[BaseFeed EXCEPT ![n] = MkFile(Header(n), v)] : v \in Variants(n)} :
           n \in VariantNames}
    \cup {Without(BaseFeed, {n}) : n \in TxtNames}
    \cup HeaderFeeds

\* the feeds the metadata probe is run on
CalendarFeeds ==
    {[BaseFeed EXCEPT !["calendar.txt"] = MkFile(Header("calendar.txt"), t)] :
        t \in Tables(Universe("calendar.txt"))}

InitState(fsys, ds, obj, folder, d, ev) ==
    /\ pc = "new"
    /\ driver = d
    /\ run = 1
    /\ fs = fsys
    /\ dirs = ds
    /\ gtfs_files = EmptyGtfsFiles
    /\ input_folder = folder
    /\ output_folder = "out"
    /\ loc = NoIds
    /\ err = "none"
    /\ returned = {}
    /\ call = NoCall
    /\ input_object = obj
    /\ temporary_folder_context = "None"
    /\ cancel = FALSE
    /\ events = ev
    /\ os_cpu_count = <<>>
    /\ cpu_count = <<>>
    /\ cores = <<>>
    /\ pool = NoPool

InitWith(feed, foo, d) ==
    InitState(InitFs(feed, foo), {"in", "cwd"}, "folder", "in", d, 0)

\* the runs on archives and files, the runs the environment interferes
\* with, the runs on feeds lacking a column, and the metadata probe
InitSmall ==
    \/ \E d \in {"bbox", "date"}, feed \in HeaderFeeds : InitWith(feed, <<>>, d)
    \/ \E d \in {"bbox", "date"} :
          \/ InitState(InitFs(BaseFeed, <<>>), {"in", "cwd"}, "folder", "in", d,
                       MaxEvents)
          \/ InitState(ArchiveFs(BaseFeed), {"in", "cwd"}, "zip", "zip", d,
                       MaxEvents)
    \/ \E d \in {"bbox", "date", "metadata"} :
          \/ \E feed \in ArchiveFeeds :
                InitState(ArchiveFs(feed), {"in", "cwd"}, "zip", "zip", d, 0)
          \/ \E obj \in {"file", "badzip"} :
                InitState(EmptyFs, {"cwd"}, obj, obj, d, 0)
    \/ \E feed \in CalendarFeeds : InitWith(feed, <<>>, "metadata")

Init ==
    \/ \E d \in {"bbox", "date"} :
          \/ \E feed \in PairFeeds : InitWith(feed, <<>>, d)
          \/ \E feed \in PartialFeeds, foo \in FooFiles : InitWith(feed, foo, d)
    \/ InitSmall

\* the caller runs the same driver on the feed the first run produced
Rerun ==
    /\ pc = "done" /\ run = 1
    /\ input_object = "folder" /\ driver \in {"bbox", "date"}
    /\ pc' = "new"
    /\ run' = 2
    /\ input_folder' = output_folder
    /\ output_folder' = "out2"
    /\ gtfs_files' = EmptyGtfsFiles
    /\ loc' = NoIds
    /\ returned' = {}
    /\ UNCHANGED <<driver, fs, dirs, err, call, input_object,
                   temporary_folder_context, ambient>>

\* after the run on the archive, the caller runs the same command on the
\* unpacked folder
RunUnpacked ==
    /\ pc = "closed" /\ run = 1
    /\ input_object = "zip" /\ driver \in {"bbox", "date"}
    /\ pc' = "new"
    /\ run' = 3
    /\ input_object' = "folder"
    /\ input_folder' = "in"
    /\ output_folder' = "out2"
    /\ temporary_folder_context' = "None"
    /\ gtfs_files' = EmptyGtfsFiles
    /\ loc' = NoIds
    /\ returned' = {}
    /\ UNCHANGED <<driver, fs, dirs, err, call, ambient>>

Next ==
    \/ ExtractorInit
    \/ GetStopsInBbox
    \/ GetTripsOfStopTimes
    \/ FilterTrips
    \/ FilterCalendarByDates
    \/ FilterCalendarDatesByDates
    \/ FilterTripsByServiceIds
    \/ FilterRoutes
    \/ FilterAgencies
    \/ FilterShapes
    \/ FilterCalendarDatesUsingServices
    \/ FilterCalendarUsingServices
    \/ FilterFrequenciesUsingTrips
    \/ FilterStopTimesUsingTrips
    \/ FilterStops
    \/ FilterTransfersUsingStops
    \/ CopyFeedInfo
    \/ GetOutputFiles
    \/ Rerun
    \/ GTFSInit
    \/ ServiceDateRange
    \/ Close
    \/ Finalize
    \/ RunUnpacked
    \/ Unlink
    \/ RaiseCancel

Spec == Init /\ [][Next]_vars

\* The runs of InitSmall, which go on as long as a step can be taken: a
\* driver runs to its end, the command closes the extractor, and an
\* exception that leaves the command ends the interpreter, whose exit runs
\* the pending finalizers.
\* A pass, or the probe, is enabled exactly at its own label: weak fairness
\* of the passes is stated with that label test for its enabling condition.
PassSteps ==
    \/ GetStopsInBbox
    \/ GetTripsOfStopTimes
    \/ FilterTrips
    \/ FilterCalendarByDates
    \/ FilterCalendarDatesByDates
    \/ FilterTripsByServiceIds
    \/ FilterRoutes
    \/ FilterAgencies
    \/ FilterShapes
    \/ FilterCalendarDatesUsingServices
    \/ FilterCalendarUsingServices
    \/ FilterFrequenciesUsingTrips
    \/ FilterStopTimesUsingTrips
    \/ FilterStops
    \/ FilterTransfersUsingStops
    \/ CopyFeedInfo
    \/ GetOutputFiles
    \/ ServiceDateRange

PassPcs == DriverPcs \cup {"service_date_range"}

SpecLive ==
    /\ InitSmall /\ [][Next]_vars
    /\ WF_vars(Close)
    /\ WF_vars(Finalize)
    /\ ([]<>(pc \notin PassPcs) \/ []<><<PassSteps>>_vars)

----------------------------------------------------------------------------
(* main.py on its own: the default worker count for every CPU count *)

InitCores ==
    /\ pc = "import"
    /\ driver = "none"
    /\ run = 1
    /\ fs = EmptyFs
    /\ dirs = {"cwd"}
    /\ gtfs_files = EmptyGtfsFiles
    /\ input_folder = "in"
    /\ output_folder = "out"
    /\ loc = NoIds
    /\ err = "none"
    /\ returned = {}
    /\ call = NoCall
    /\ input_object = "folder"
    /\ temporary_folder_context = "None"
    /\ cancel = FALSE
    /\ events = 0
    /\ os_cpu_count \in {<<>>} \cup {<<n>> : n \in 1..MaxCpus}
    /\ cpu_count = <<>>
    /\ cores = <<>>
    /\ pool = NoPool

NextCores == ImportMain \/ MainCallback

SpecCores == InitCores /\ [][NextCores]_vars

----------------------------------------------------------------------------
(* One pass of the chunked filter on its own: any table, any id column of  *)
(* it, any set of identifiers                                              *)

\* the columns of a file that hold identifiers
IdColumns(name) == Header(name) \ {"stop_lat", "stop_lon", "start_date",
                                   "end_date", "date"}

VariedNames == TxtNames \ {"feed_info.txt"}

\* the identifiers of a column, and one that no row carries
IdsOf(name, col) == ({r[col] : r \in Universe(name)} \ {NA}) \cup {"zz"}

InitFilter ==
    \E n \in VariedNames :
    \E t \in UNION {[1..k -> Universe(n)] : k \in 0..MaxFilterRows} :
    \E c \in IdColumns(n) :
    \E S \in SUBSET IdsOf(n, c) :
        /\ pc = "filter"
        /\ driver = "none"
        /\ run = 1
        /\ fs = InitFs([BaseFeed EXCEPT ![n] = MkFile(Header(n), t)], <<>>)
        /\ dirs = {"in", "cwd", "out"}
        /\ gtfs_files = ScanAll(EmptyGtfsFiles, Glob(fs, "in"))
        /\ input_folder = "in"
        /\ output_folder = "out"
        /\ loc = NoIds
        /\ err = "none"
        /\ returned = {}
        /\ call = [file_path |-> [dir |-> "in", name |-> n], ids |-> S,
                   columns |-> <<c>>]
        /\ input_object = "folder"
        /\ temporary_folder_context = "None"
        /\ cancel = FALSE
        /\ events = 0
        /\ os_cpu_count = <<>>
        /\ cpu_count = <<>>
        /\ cores = <<>>
        /\ pool = NoPool

\* __filter_rows_by_custom_column(file_path, ids, columns, write_out=True)
ApplyFilter ==
    /\ pc = "filter"
    /\ LET res == Filter(call.file_path, call.ids, call.columns, <<>>, TRUE)
       IN  Ended(res, "filtered", loc)

NextFilter == ApplyFilter

SpecFilter == InitFilter /\ [][NextFilter]_vars

----------------------------------------------------------------------------
(* The chunked filter with its worker pool: ddf.read_csv splits the file   *)
(* into partitions, map_partitions applies __row_filter to each, compute   *)
(* runs them on num_workers workers and assembles the results              *)

\* the ways ddf.read_csv may split rows into at most k partitions, none of
\* them empty unless the file has no rows
RECURSIVE Splits(_, _)
Splits(rows, k) ==
    {<<rows>>} \cup
    (IF k <= 1 THEN {}
     ELSE UNION {{<<SubSeq(rows, 1, c)>> \o rest :
                     rest \in Splits(SubSeq(rows, c + 1, Len(rows)), k - 1)} :
                 c \in 1..(Len(rows) - 1)})

\* the partitions whose task has not finished
Unfinished(p) == (1..Len(p.parts)) \ DOMAIN p.done

\* the tasks the workers hold: the scheduler hands the partitions out in
\* their order, one to each free worker
Running(p) ==
    {i \in Unfinished(p) :
        Cardinality({j \in Unfinished(p) : j < i}) < p.workers}

RECURSIVE Flatten(_)
Flatten(seqs) == IF seqs = <<>> THEN <<>> ELSE Head(seqs) \o Flatten(Tail(seqs))

\* mutant: the results are put together in the order the workers finished
Assemble_ByCompletion(p) ==
    Flatten([k \in 1..Len(p.order) |-> p.done[p.order[k]]])

\* compute(): the results of the partitions, put together in the order of
\* the partitions
Assemble(p) == Flatten([i \in 1..Len(p.parts) |-> p.done[i]])

\* __filter_rows_by_custom_column after compute: the output file is
\* written, read back, and the id-sets are collected from it
gather(fsys, outdir, file_path, ddf_out, return_columns) ==
    LET f == fsys[file_path]
        output_path == [dir |-> outdir, name |-> file_path.name]
        InFile(c) == c \in f.cols
        present == SelectSeq(return_columns, InFile)
        fs1 == Write(fsys, output_path, MkFile(f.cols, ddf_out))
        results == fs1[output_path].rows
        final_results == [i \in 1..Len(present) |-> Distinct(results, present[i])]
    IN  [err |-> "none",
         fs  |-> fs1,
         ret |-> IF Len(present) > 0
                 THEN final_results \o
                      EmptySets(Len(return_columns) - Len(present))
                 ELSE <<>>]

\* the rows and the id-sets the chunked filter is run on
ChunkRows == {TripRow("t1", "r1", "sv1", "sh1"), TripRow("t2", "r2", "sv2", NA),
              TripRow(NA, "r1", "sv1", "sh2")}

ChunkIds == {{"t1"}, {"t1", "t2"}, {"zz"}}

InitChunks ==
    \E t \in UNION {[1..k -> ChunkRows] : k \in 0..MaxChunkRows} :
    \E S \in ChunkIds :
    \E w \in 1..MaxWorkers :
        /\ pc = "read_csv"
        /\ driver = "none"
        /\ run = 1
        /\ fs = InitFs([BaseFeed EXCEPT !["trips.txt"] =
                           MkFile(Header("trips.txt"), t)], <<>>)
        /\ dirs = {"in", "cwd", "out"}
        /\ gtfs_files = ScanAll(EmptyGtfsFiles, Glob(fs, "in"))
        /\ input_folder = "in"
        /\ output_folder = "out"
        /\ loc = NoIds
        /\ err = "none"
        /\ returned = {}
        /\ call = [file_path |-> [dir |-> "in", name |-> "trips.txt"], ids |-> S,
                   columns |-> <<"trip_id">>,
                   return_columns |-> <<"route_id", "service_id", "shape_id">>]
        /\ input_object = "folder"
        /\ temporary_folder_context = "None"
        /\ cancel = FALSE
        /\ events = 0
        /\ os_cpu_count = <<>>
        /\ cpu_count = <<>>
        /\ cores = <<w>>
        /\ pool = [NoPool EXCEPT !.workers = w]

\* the existence test, then ddf.read_csv(file_path): the partitions
ReadCsv ==
    /\ pc = "read_csv"
    /\ IF ~Exists(fs, call.file_path)
       THEN pc' = "failed" /\ err' = "GtfsFileNotFound" /\ pool' = pool
       ELSE /\ \E parts \in Splits(fs[call.file_path].rows, MaxChunks) :
                  pool' = [pool EXCEPT !.parts = parts]
            /\ pc' = "compute" /\ err' = err
    /\ UNCHANGED <<driver, run, fs, dirs, gtfs_files, input_folder, output_folder,
                   loc, returned, call, input_object, temporary_folder_context,
                   cancel, events, os_cpu_count, cpu_count, cores>>

\* a worker finishes __row_filter on its partition
FinishChunk ==
    /\ pc = "compute"
    /\ \E i \in Running(pool) :
          pool' = [pool EXCEPT
                      !.done = [j \in DOMAIN pool.done \cup {i} |->
                                   IF j = i
                                   THEN row_filter(pool.parts[i], call.ids,
                                                   call.columns)
                                   ELSE pool.done[j]],
                      !.order = Append(pool.order, i)]
    /\ UNCHANGED <<pc, driver, run, fs, dirs, gtfs_files, input_folder,
                   output_folder, loc, err, returned, call, input_object,
                   temporary_folder_context, cancel, events, os_cpu_count,
                   cpu_count, cores>>

\* every task has finished: compute() returns, the output is written and
\* the id-sets are returned
Gather ==
    /\ pc = "compute"
    /\ Unfinished(pool) = {}
    /\ LET res == gather(fs, output_folder, call.file_path, Assemble(pool),
                         call.return_columns)
       IN  /\ fs' = res.fs
           /\ returned' = res.ret
    /\ pc' = "computed"
    /\ UNCHANGED <<driver, run, dirs, gtfs_files, input_folder, output_folder,
                   loc, err, call, input_object, temporary_folder_context,
                   ambient>>

NextChunks == ReadCsv \/ FinishChunk \/ Gather

SpecChunks == InitChunks /\ [][NextChunks]_vars

(* gtfs.py: set_files on one file name *)

ScanNames == TxtNames \cup MixedNames \cup {"readme.txt"}

\* the tables a scan can have built before the next file is taken
ScanTables ==
    {ScanAll(EmptyGtfsFiles, {[dir |-> "in", name |-> n] : n \in T}) :
        T \in SUBSET {"agency.txt", "stop_times.txt", "calendar.txt"}}

InitScan ==
    \E n \in ScanNames :
    \E d \in {"in", "out"} :
    \E t \in ScanTables :
        /\ pc = "set_files"
        /\ driver = "none"
        /\ run = 1
        /\ fs = InitFs(BaseFeed, <<>>)
        /\ dirs = {"in", "cwd", "out"}
        /\ gtfs_files = t
        /\ input_folder = "in"
        /\ output_folder = "out"
        /\ loc = NoIds
        /\ err = "none"
        /\ returned = {}
        /\ call = [file_path |-> [dir |-> d, name |-> n]]
        /\ input_object = "folder"
        /\ temporary_folder_context = "None"
        /\ cancel = FALSE
        /\ events = 0
        /\ os_cpu_count = <<>>
        /\ cpu_count = <<>>
        /\ cores = <<>>
        /\ pool = NoPool

\* GtfsFiles.set_files(file_path)
SetFiles ==
    /\ pc = "set_files"
    /\ gtfs_files' = set_files(gtfs_files, call.file_path)
    /\ pc' = "scanned"
    /\ UNCHANGED <<driver, run, fs, dirs, input_folder, output_folder, loc,
                   err, returned, call, input_object,
                   temporary_folder_context, ambient>>

NextScan == SetFiles

SpecScan == InitScan /\ [][NextScan]_vars

(* One Extractor used as its caller may use it: with an output folder that *)
(* is new, that holds files of an earlier run, or that is the input         *)
(* directory, and for a second driver call on the same instance             *)

\* a feed whose trips name no shape
NoShapeTrips ==
    <<TripRow("t1", "r1", "sv1", NA), TripRow("t2", "r2", "sv2", NA)>>

ReuseFeeds ==
    {BaseFeed,
     [BaseFeed EXCEPT !["trips.txt"] = MkFile(Header("trips.txt"), NoShapeTrips)]}

\* what an earlier run may have left in the output folder
StaleFiles ==
    [p \in {[dir |-> "out", name |-> "shapes.txt"],
            [dir |-> "out", name |-> "readme.txt"]} |->
        IF p.name = "shapes.txt"
        THEN MkFile(Header("shapes.txt"), <<ShapeRow("old")>>)
        ELSE MkFile({"note"}, <<>>)]

StaleSets ==
    {{}, {[dir |-> "out", name |-> "shapes.txt"]}, DOMAIN StaleFiles}

\* the files of the folder dir, by name
Folder(fsys, dir) ==
    [n \in {p.name : p \in {q \in DOMAIN fsys : q.dir = dir}} |->
        fsys[[dir |-> dir, name |-> n]]]

InitReuse ==
    \E d \in {"bbox", "date"} :
    \E feed \in ReuseFeeds :
    \E o \in {"out", "in"} :
    \E stale \in StaleSets :
        /\ o = "in" => stale = {}
        /\ pc = "new"
        /\ driver = d
        /\ run = 1
        /\ fs = [p \in DOMAIN InitFs(feed, <<>>) \cup stale |->
                    IF p \in stale THEN StaleFiles[p] ELSE InitFs(feed, <<>>)[p]]
        /\ dirs = {"in", "cwd"} \cup (IF stale = {} THEN {} ELSE {"out"})
        /\ gtfs_files = EmptyGtfsFiles
        /\ input_folder = "in"
        /\ output_folder = o
        /\ loc = NoIds
        /\ err = "none"
        /\ returned = {}
        /\ call = [input |-> Folder(fs, "in"), stale |-> stale,
                   table |-> EmptyGtfsFiles, output |-> <<>>]
        /\ input_object = "folder"
        /\ temporary_folder_context = "None"
        /\ cancel = FALSE
        /\ events = 0
        /\ os_cpu_count = <<>>
        /\ cpu_count = <<>>
        /\ cores = <<>>
        /\ pool = NoPool

\* the caller keeps what the first call gave and calls the same driver of
\* the same instance again
CallAgain ==
    /\ pc = "done" /\ run = 1
    /\ input_object = "folder" /\ driver \in {"bbox", "date"}
    /\ pc' = "extract"
    /\ run' = 4
    /\ loc' = NoIds
    /\ returned' = {}
    /\ call' = [call EXCEPT !.table = gtfs_files,
                            !.output = Folder(fs, output_folder)]
    /\ UNCHANGED <<driver, fs, dirs, gtfs_files, input_folder, output_folder,
                   err, input_object, temporary_folder_context, ambient>>

NextReuse ==
    \/ ExtractorInit
    \/ GetStopsInBbox
    \/ GetTripsOfStopTimes
    \/ FilterTrips
    \/ FilterCalendarByDates
    \/ FilterCalendarDatesByDates
    \/ FilterTripsByServiceIds
    \/ FilterRoutes
    \/ FilterAgencies
    \/ FilterShapes
    \/ FilterCalendarDatesUsingServices
    \/ FilterCalendarUsingServices
    \/ FilterFrequenciesUsingTrips
    \/ FilterStopTimesUsingTrips
    \/ FilterStops
    \/ FilterTransfersUsingStops
    \/ CopyFeedInfo
    \/ GetOutputFiles
    \/ CallAgain

SpecReuse == InitReuse /\ [][NextReuse]_vars

----------------------------------------------------------------------------
(* Claims *)

InPath(name) == [dir |-> input_folder, name |-> name]
OutPath(name) == [dir |-> output_folder, name |-> name]
InRows(name) == FileAt(fs, InPath(name)).rows
OutRows(name) == FileAt(fs, OutPath(name)).rows

\* the foreign keys of a feed: file.col refers to ref.key
ForeignKeys ==
    {[file |-> "stop_times.txt", col |-> "trip_id", ref |-> "trips.txt", key |-> "trip_id"],
     [file |-> "stop_times.txt", col |-> "stop_id", ref |-> "stops.txt", key |-> "stop_id"],
     [file |-> "trips.txt", col |-> "route_id", ref |-> "routes.txt", key |-> "route_id"],
     [file |-> "trips.txt", col |-> "shape_id", ref |-> "shapes.txt", key |-> "shape_id"],
     [file |-> "routes.txt", col |-> "agency_id", ref |-> "agency.txt", key |-> "agency_id"],
     [file |-> "frequencies.txt", col |-> "trip_id", ref |-> "trips.txt", key |-> "trip_id"],
     [file |-> "transfers.txt", col |-> "from_stop_id", ref |-> "stops.txt", key |-> "stop_id"],
     [file |-> "transfers.txt", col |-> "to_stop_id", ref |-> "stops.txt", key |-> "stop_id"]}

\* every non-empty foreign-key cell of a file of the folder is the key of a
\* row of its referent file, when that file is in the folder too
Closed(dir) ==
    \A fk \in ForeignKeys :
        LET f == [dir |-> dir, name |-> fk.file]
            g == [dir |-> dir, name |-> fk.ref]
        IN  (Exists(fs, f) /\ Exists(fs, g) /\ fk.col \in fs[f].cols) =>
                \A r \in Range(fs[f].rows) :
                    r[fk.col] # NA => \E q \in Range(fs[g].rows) : q[fk.key] = r[fk.col]

\* C1 as stated: after either driver completes, on any feed that passed the
\* required-file check, the output folder is closed under the foreign keys.
C1_AnyInput == pc = "done" => Closed(output_folder)

\* C1 amended: after either driver completes on a feed that is itself closed
\* under the foreign keys, every non-empty foreign-key value of an output
\* file is the key of a row of its referent output file.
C1_ClosedInput == (pc = "done" /\ Closed(input_folder)) => Closed(output_folder)

\* a completed run on a closed feed whose output carries references of
\* every kind, and which dropped rows
C1_Witness ==
    /\ pc = "done" /\ run = 1 /\ Closed(input_folder)
    /\ \A fk \in ForeignKeys :
          /\ Exists(fs, OutPath(fk.file)) /\ Exists(fs, OutPath(fk.ref))
          /\ \E r \in Range(OutRows(fk.file)) : r[fk.col] # NA
    /\ Len(OutRows("trips.txt")) < Len(InRows("trips.txt"))

\* the stops inside the box, all four edges inclusive, and the trips that
\* call at one of them
C2_StopsInside ==
    {r.stop_id : r \in {q \in Range(InRows("stops.txt")) :
                          /\ TheBbox.min_lat <= q.stop_lat
                          /\ q.stop_lat <= TheBbox.max_lat
                          /\ TheBbox.min_lon <= q.stop_lon
                          /\ q.stop_lon <= TheBbox.max_lon}} \ {NA}

C2_Trips ==
    {r.trip_id : r \in {q \in Range(InRows("stop_times.txt")) :
                          q.stop_id \in C2_StopsInside}} \ {NA}

C2_OfTrips(r) == r.trip_id \in C2_Trips

C2_Called(r) ==
    r.stop_id # NA /\ \E q \in Range(OutRows("stop_times.txt")) : q.stop_id = r.stop_id

\* C2: after extract_by_bbox completes, trips holds exactly the input trips
\* whose trip_id occurs in a stop_times row at a stop inside the box,
\* stop_times holds every input row of those trips (also at stops outside
\* the box), and stops holds exactly the input stops that the stop_times
\* output names.
C2_BboxOutputs ==
    (pc = "done" /\ driver = "bbox") =>
        /\ OutRows("trips.txt") = SelectSeq(InRows("trips.txt"), C2_OfTrips)
        /\ OutRows("stop_times.txt") = SelectSeq(InRows("stop_times.txt"), C2_OfTrips)
        /\ OutRows("stops.txt") = SelectSeq(InRows("stops.txt"), C2_Called)

\* a bbox run that kept a trip through a stop on the upper edge, kept a
\* stop_times row at a stop outside the box, and dropped a trip
C2_Witness ==
    /\ pc = "done" /\ driver = "bbox" /\ run = 1
    /\ \E r \in Range(InRows("stops.txt")) :
          /\ r.stop_lat = TheBbox.max_lat /\ r.stop_lon = TheBbox.max_lon
          /\ r \in Range(OutRows("stops.txt"))
    /\ \E r \in Range(OutRows("stop_times.txt")) : r.stop_id \notin C2_StopsInside
    /\ OutRows("trips.txt") # <<>>
    /\ Len(OutRows("trips.txt")) < Len(InRows("trips.txt"))

\* C3: extract_by_bbox on the output of extract_by_bbox, with the same box,
\* produces the same files, each with the same rows in the same order.
C3_Idempotent ==
    (pc = "done" /\ run = 2 /\ driver = "bbox") =>
        \A n \in TxtNames \cup {"foo"} :
            /\ Exists(fs, OutPath(n)) <=> Exists(fs, InPath(n))
            /\ FileAt(fs, OutPath(n)) = FileAt(fs, InPath(n))

\* a second bbox run completed on the output of a first run that had dropped
\* trips, stops and shapes and kept some of each
C3_Witness ==
    /\ pc = "done" /\ run = 2 /\ driver = "bbox"
    /\ \A n \in {"trips.txt", "stops.txt", "shapes.txt"} :
          /\ OutRows(n) # <<>>
          /\ Len(OutRows(n)) < Len(FileAt(fs, [dir |-> "in", name |-> n]).rows)

\* a calendar row contained in the window
C4_Contained(r) ==
    /\ r.start_date[2] >= TheWindow.start_date
    /\ r.end_date[2] <= TheWindow.end_date

\* the rows of a calendar table, whatever the text of their dates
C4_Days(rows) ==
    [i \in 1..Len(rows) |->
        [service_id |-> rows[i].service_id, start_date |-> rows[i].start_date[2],
         end_date |-> rows[i].end_date[2]]]

\* C4: after extract_by_date completes, the calendar output holds exactly
\* the input calendar rows with start_date >= start and end_date <= end,
\* as the calendar date pass wrote them; the calendar_dates date pass and
\* the common-files tail leave them as they are.
C4_CalendarByWindow ==
    (pc = "done" /\ driver = "date" /\ run = 1) =>
        /\ Exists(fs, OutPath("calendar.txt"))
        /\ fs[OutPath("calendar.txt")].cols = fs[InPath("calendar.txt")].cols
        /\ C4_Days(OutRows("calendar.txt")) =
              C4_Days(SelectSeq(InRows("calendar.txt"), C4_Contained))

\* a calendar_dates row dated in the window, both bounds inclusive
C5_Dated(r) ==
    TheWindow.start_date <= r.date[2] /\ r.date[2] <= TheWindow.end_date

\* the rows of a calendar_dates table, whatever the text of their dates
C5_Days(rows) ==
    [i \in 1..Len(rows) |->
        [service_id |-> rows[i].service_id, date |-> rows[i].date[2]]]

\* C5: after extract_by_date completes, the calendar_dates output holds
\* exactly the input calendar_dates rows with start <= date <= end; the
\* common-files tail adds no row dated outside the window.
C5_CalendarDatesByWindow ==
    (pc = "done" /\ driver = "date" /\ run = 1) =>
        /\ Exists(fs, OutPath("calendar_dates.txt"))
        /\ fs[OutPath("calendar_dates.txt")].cols = fs[InPath("calendar_dates.txt")].cols
        /\ C5_Days(OutRows("calendar_dates.txt")) =
              C5_Days(SelectSeq(InRows("calendar_dates.txt"), C5_Dated))

\* the services the date window selects: through a calendar row contained
\* in the window, or through a calendar_dates row dated in the window
C6_ByCalendar ==
    {r.service_id : r \in {q \in Range(InRows("calendar.txt")) : C4_Contained(q)}}

C6_ByCalendarDates ==
    {r.service_id : r \in {q \in Range(InRows("calendar_dates.txt")) : C5_Dated(q)}}

C6_Services == (C6_ByCalendar \cup C6_ByCalendarDates) \ {NA}

C6_OfServices(r) == r.service_id \in C6_Services

C6_AfterTrips ==
    {"_filter_routes", "_filter_agencies", "_filter_shapes",
     "_filter_calendar_dates_using_services", "_filter_calendar_using_services",
     "_filter_frequencies_using_trips", "_filter_stop_times_using_trips"}

\* C6: in extract_by_date the trips pass is fed the union of the services of
\* the calendar rows contained in the window and of the calendar_dates rows
\* dated in it; the trips output is exactly the input trips of those
\* services, and the trip-id set the tail works with is exactly the trip ids
\* of the trips output.
C6_TripsByServices ==
    driver = "date" =>
        /\ pc = "_filter_trips_by_service_ids" =>
              loc.service_ids_to_keep \ {NA} = C6_Services
        /\ pc \in C6_AfterTrips =>
              /\ OutRows("trips.txt") = SelectSeq(InRows("trips.txt"), C6_OfServices)
              /\ loc.trip_ids = Distinct(OutRows("trips.txt"), "trip_id")

\* the tail is about to use the trip ids; a kept trip runs on a service that
\* only calendar_dates selected, and another trip was dropped
C6_Witness ==
    /\ driver = "date" /\ run = 1
    /\ pc = "_filter_stop_times_using_trips"
    /\ \E r \in Range(OutRows("trips.txt")) :
          r.service_id \in C6_ByCalendarDates \ C6_ByCalendar
    /\ Len(OutRows("trips.txt")) < Len(InRows("trips.txt"))
    /\ loc.trip_ids # {}

C7_Kept(r) == r[call.columns[1]] \in call.ids

\* C7: a pass filtering a file with KeepIfIn(col, S) writes exactly the rows
\* of the file whose col is in S, once each, in input order, unaltered.
C7_KeepIfIn ==
    pc = "filtered" =>
        /\ Exists(fs, OutPath(call.file_path.name))
        /\ OutRows(call.file_path.name) = SelectSeq(fs[call.file_path].rows, C7_Kept)
        /\ fs[OutPath(call.file_path.name)].cols = fs[call.file_path].cols

\* a pass that kept two rows and dropped between them a row with an id
\* outside S
C7_Witness ==
    /\ pc = "filtered"
    /\ Len(OutRows(call.file_path.name)) = 2
    /\ Len(fs[call.file_path].rows) = 3
    /\ C7_Kept(fs[call.file_path].rows[1]) /\ C7_Kept(fs[call.file_path].rows[3])
    /\ \E r \in Range(fs[call.file_path].rows) :
          r[call.columns[1]] # NA /\ r[call.columns[1]] \notin call.ids

\* the files a feed must have and the files it may have
C8_RequiredNames ==
    {"agency.txt", "calendar_dates.txt", "calendar.txt", "feed_info.txt",
     "routes.txt", "stop_times.txt", "stops.txt", "trips.txt"}

C9_OptionalNames == {"shapes.txt", "frequencies.txt", "transfers.txt"}

\* C8: constructing the extractor on an input that lacks one of the eight
\* required files fails with GtfsIncompleteException, before the output
\* folder is created and before any output file is written.
C8_FeedIncomplete ==
    \A n \in C8_RequiredNames :
        ( /\ run = 1 /\ pc # "new"
          /\ input_object \in {"folder", "zip"}
          /\ gtfs_files[KeyOf(n)] = NoPath ) =>
            /\ pc = "failed"
            /\ err = "GtfsIncompleteException"
            /\ output_folder \notin dirs
            /\ \A p \in DOMAIN fs : p.dir # output_folder

\* C9: on a feed with the eight required files and none of shapes,
\* frequencies and transfers, both drivers run every remaining pass without
\* error, and the trips output is the one the trips pass selects, shape_id
\* values kept as they are.
C9_OptionalAbsent ==
    ( /\ run = 1
      /\ \A n \in C8_RequiredNames : Exists(fs, [dir |-> "in", name |-> n])
      /\ \A n \in C9_OptionalNames : ~Exists(fs, [dir |-> "in", name |-> n]) ) =>
        /\ pc # "failed"
        /\ (pc = "done" /\ driver = "bbox") =>
              OutRows("trips.txt") = SelectSeq(InRows("trips.txt"), C2_OfTrips)
        /\ (pc = "done" /\ driver = "date") =>
              OutRows("trips.txt") = SelectSeq(InRows("trips.txt"), C6_OfServices)

\* C10: an optional file that the scan of the input did not find has an
\* accessor that tests as not existing, whatever else is on the filesystem;
\* no pass works on a file in its place and no output file is made for it.
C10_MissingOptional ==
    \A k \in OptionalKeys :
        (run = 1 /\ pc \notin {"new", "filter", "filtered"} /\ gtfs_files[k] = NoPath) =>
            /\ ~Exists(fs, Accessor(gtfs_files, k))
            /\ \A p \in DOMAIN fs :
                  p.dir = output_folder => KeyOf(p.name) # k /\ p.name # "foo"

\* the passes that write a file, the id-set each is handed, and whether the
\* file is an optional one
C11_WritingPasses ==
    {[pc |-> "_filter_trips", ids |-> "trip_ids", key |-> "trips", optional |-> FALSE],
     [pc |-> "_filter_trips_by_service_ids", ids |-> "service_ids_to_keep", key |-> "trips", optional |-> FALSE],
     [pc |-> "_filter_routes", ids |-> "route_ids_to_keep", key |-> "routes", optional |-> FALSE],
     [pc |-> "_filter_agencies", ids |-> "agency_ids_to_keep", key |-> "agency", optional |-> FALSE],
     [pc |-> "_filter_shapes", ids |-> "shape_ids_to_keep", key |-> "shapes", optional |-> TRUE],
     [pc |-> "_filter_calendar_dates_using_services", ids |-> "service_ids_to_keep", key |-> "calendar_dates", optional |-> FALSE],
     [pc |-> "_filter_calendar_using_services", ids |-> "service_ids_to_keep", key |-> "calendar", optional |-> FALSE],
     [pc |-> "_filter_frequencies_using_trips", ids |-> "trip_ids", key |-> "frequencies", optional |-> TRUE],
     [pc |-> "_filter_stop_times_using_trips", ids |-> "trip_ids", key |-> "stop_times", optional |-> FALSE],
     [pc |-> "_filter_stops", ids |-> "stop_ids_to_keep", key |-> "stops", optional |-> FALSE],
     [pc |-> "_filter_transfers_using_stops", ids |-> "stop_ids_to_keep", key |-> "transfers", optional |-> TRUE]}

\* the output files that belong to an attribute of the file table
C11_Outputs(fsys, key) ==
    {p \in DOMAIN fsys : p.dir = output_folder /\ KeyOf(p.name) = key}

\* C11: a writing pass that is handed an empty id-set does not fail and
\* writes no data row: the output of a required file is there with its
\* header alone, the output of an optional file has its header alone or is
\* not there.
C11_EmptyIdSet ==
    [][\A w \in C11_WritingPasses :
          (pc = w.pc /\ loc[w.ids] = {} /\ pc' # pc) =>
              /\ pc' # "failed"
              /\ \A p \in C11_Outputs(fs', w.key) : fs'[p].rows = <<>>
              /\ ~w.optional =>
                    /\ C11_Outputs(fs', w.key) # {}
                    /\ \A p \in C11_Outputs(fs', w.key) :
                          fs'[p].cols = fs[gtfs_files[w.key]].cols
              /\ \A p \in DOMAIN fs' :
                    (p \notin DOMAIN fs \/ fs'[p] # fs[p]) => fs'[p].rows = <<>>]_vars

C13_CancelObserved ==
    [][(cancel /\ pc \in DriverPcs /\ pc' # pc) =>
          (pc' = "failed" /\ err' = "Cancelled" /\ fs' = fs)]_vars

\* the calendar file the date pass reads and the file it writes
C14_In == gtfs_files["calendar"]

C14_Out == [dir |-> output_folder, name |-> gtfs_files["calendar"].name]

\* the date pass on calendar has just returned
C14_AfterCalendarPass ==
    /\ driver = "date" /\ run = 1
    /\ pc = "_filter_calendar_dates_by_dates"

\* C14: the calendar date pass keeps a row if and only if its start_date is
\* at or after the start of the window and its end_date at or before the
\* end, both bounds inclusive; a row that only overlaps the window is
\* dropped.  The service ids it returns are those of the rows kept.
C14_KeepIfContained ==
    C14_AfterCalendarPass =>
        /\ Exists(fs, C14_Out)
        /\ C4_Days(fs[C14_Out].rows) =
              C4_Days(SelectSeq(fs[C14_In].rows, C4_Contained))
        /\ loc.service_ids_to_keep =
              ServiceIds(SelectSeq(fs[C14_In].rows, C4_Contained))

\* a row on the two bounds was kept and a row that overlaps the window
\* from before its start was dropped
C14_Witness ==
    /\ C14_AfterCalendarPass
    /\ \E r \in Range(fs[C14_In].rows) :
          /\ r.start_date[2] = TheWindow.start_date
          /\ r.end_date[2] = TheWindow.end_date
          /\ r.service_id \in ServiceIds(fs[C14_Out].rows)
    /\ \E r \in Range(fs[C14_In].rows) :
          /\ r.start_date[2] < TheWindow.start_date
          /\ r.end_date[2] >= TheWindow.start_date
          /\ r.service_id \notin ServiceIds(fs[C14_Out].rows)

\* the filter calls of the two drivers that ask for return columns
C15_Calls ==
    {[pc |-> "_get_trips_of_stop_times", key |-> "stop_times",
      ids |-> "stop_ids_in_bbox", columns |-> <<"stop_id">>,
      return_columns |-> <<"trip_id">>, write_out |-> FALSE],
     [pc |-> "_filter_trips", key |-> "trips", ids |-> "trip_ids",
      columns |-> <<"trip_id">>,
      return_columns |-> <<"route_id", "service_id", "shape_id">>,
      write_out |-> TRUE],
     [pc |-> "_filter_trips_by_service_ids", key |-> "trips",
      ids |-> "service_ids_to_keep", columns |-> <<"service_id">>,
      return_columns |-> <<"route_id", "trip_id", "shape_id">>,
      write_out |-> TRUE],
     [pc |-> "_filter_routes", key |-> "routes", ids |-> "route_ids_to_keep",
      columns |-> <<"route_id">>, return_columns |-> <<"agency_id">>,
      write_out |-> TRUE],
     [pc |-> "_filter_stop_times_using_trips", key |-> "stop_times",
      ids |-> "trip_ids", columns |-> <<"trip_id">>,
      return_columns |-> <<"stop_id">>, write_out |-> TRUE]}

\* C15: a filter call with return columns that returns at all returns one
\* set per requested column, the columns the file lacks giving empty sets at
\* the end, also when the file has none of them; the positional read of the
\* caller does not fail.
C15_TupleLength ==
    /\ \A c \in C15_Calls :
          pc = c.pc =>
             LET res == Filter(gtfs_files[c.key], loc[c.ids], c.columns,
                               c.return_columns, c.write_out)
             IN  res.err = "none" => Len(res.ret) = Len(c.return_columns)
    /\ err # "IndexError"

\* the passes that read their input file without asking the caller whether
\* it is there
C16_Reads ==
    {[pc |-> "extract", drivers |-> {"bbox"}, key |-> "stops"],
     [pc |-> "extract", drivers |-> {"date"}, key |-> "calendar"],
     [pc |-> "_filter_calendar_dates_by_dates", drivers |-> {"date"},
      key |-> "calendar_dates"],
     [pc |-> "_get_trips_of_stop_times", drivers |-> {"bbox"},
      key |-> "stop_times"],
     [pc |-> "_filter_trips", drivers |-> {"bbox"}, key |-> "trips"],
     [pc |-> "_filter_trips_by_service_ids", drivers |-> {"date"},
      key |-> "trips"],
     [pc |-> "_filter_routes", drivers |-> {"bbox", "date"}, key |-> "routes"],
     [pc |-> "_filter_agencies", drivers |-> {"bbox", "date"}, key |-> "agency"],
     [pc |-> "_filter_calendar_dates_using_services",
      drivers |-> {"bbox", "date"}, key |-> "calendar_dates"],
     [pc |-> "_filter_calendar_using_services", drivers |-> {"bbox", "date"},
      key |-> "calendar"],
     [pc |-> "_filter_stop_times_using_trips", drivers |-> {"bbox", "date"},
      key |-> "stop_times"],
     [pc |-> "_filter_stops", drivers |-> {"bbox", "date"}, key |-> "stops"]}

\* C16: a pass whose input path does not exist when it is to be read fails
\* with GtfsFileNotFound, writes nothing, and the driver runs no later pass.
C16_FileMissing ==
    [][\A r \in C16_Reads :
          (/\ pc = r.pc /\ driver \in r.drivers
           /\ ~Exists(fs, gtfs_files[r.key])
           /\ pc' # pc) =>
              (pc' = "failed" /\ err' = "GtfsFileNotFound" /\ fs' = fs)]_vars

\* max(1, CPU count - 1), and 1 when the CPU count is unknown
C17_Expected(n) == IF n = <<>> \/ n[1] - 1 < 1 THEN 1 ELSE n[1] - 1

\* C17: when --cores is not given, the worker count the commands hand to
\* the extractor is max(1, CPU count - 1) for every CPU count from 1 up, and
\* 1 when the CPU count is unknown; it is never 0 or negative.
C17_DefaultCores ==
    pc = "command" =>
        /\ cores = <<C17_Expected(os_cpu_count)>>
        /\ cores[1] >= 1

\* the rows of the calendar file the probe reads
C18_Rows == FileAt(fs, gtfs_files["calendar"]).rows

\* C18: the metadata probe returns the least start_date and the greatest
\* end_date of all calendar rows, as "YYYY-MM-DD HH:MM:SS" strings, whatever
\* the order of the rows and the split of the file into chunks, and it
\* writes no file.
C18_ServiceDateRange ==
    [][(pc = "service_date_range" /\ pc' # pc) =>
          /\ fs' = fs
          /\ pc' = "done" =>
                returned' =
                   <<strftime(Minimum({r.start_date[2] : r \in Range(C18_Rows)})),
                     strftime(Maximum({r.end_date[2] : r \in Range(C18_Rows)}))>>]_vars

\* the probe returned on a calendar whose least start_date is in its last
\* row and whose greatest end_date is in its first
C18_Witness ==
    /\ driver = "metadata" /\ pc = "done"
    /\ Len(C18_Rows) = 2
    /\ C18_Rows[2].start_date[2] < C18_Rows[1].start_date[2]
    /\ C18_Rows[2].end_date[2] < C18_Rows[1].end_date[2]
    /\ returned = <<strftime(C18_Rows[2].start_date[2]),
                    strftime(C18_Rows[1].end_date[2])>>

\* the names of the files of a directory
C19_Names(dir) == {p.name : p \in {q \in DOMAIN fs : q.dir = dir}}

\* the bbox driver has returned on the unpacked folder, after it returned
\* on the archive of the same feed
C19_BothRan == run = 3 /\ driver = "bbox" /\ pc = "done"

\* C19: on the same feed and the same bbox, extract_by_bbox given the
\* archive and extract_by_bbox given the unpacked folder write the same set
\* of output files with the same contents; the run on the folder does not
\* fail where the run on the archive returned.
C19_ZipParity ==
    /\ C19_BothRan =>
          /\ C19_Names("out2") = C19_Names("out")
          /\ \A n \in C19_Names("out") :
                fs[[dir |-> "out2", name |-> n]] = fs[[dir |-> "out", name |-> n]]
    /\ (run = 3 /\ driver = "bbox") => pc # "failed"

\* both runs wrote the files of the feed, with rows of stop_times and trips
\* dropped and shapes.txt among the outputs
C19_Witness ==
    /\ C19_BothRan
    /\ "shapes.txt" \in C19_Names("out2")
    /\ Len(fs[[dir |-> "out2", name |-> "stop_times.txt"]].rows) > 0
    /\ Len(fs[[dir |-> "out2", name |-> "stop_times.txt"]].rows) <
          Len(fs[[dir |-> "in", name |-> "stop_times.txt"]].rows)
    /\ Len(fs[[dir |-> "out", name |-> "trips.txt"]].rows) <
          Len(fs[[dir |-> "zip", name |-> "trips.txt"]].rows)

\* C20: constructing the extractor on a regular file that has no .zip
\* suffix, or on a .zip file that cannot be unpacked, fails with the BadZip
\* kind of error (zipfile.BadZipFile) before any file is scanned, and no
\* output folder is made.
C20_BadZip ==
    (input_object \in {"file", "badzip"} /\ pc # "new") =>
        /\ pc = "failed"
        /\ err = "BadZipFile"
        /\ gtfs_files = EmptyGtfsFiles
        /\ output_folder \notin dirs

\* every id of ids is the value of column col in a row of rows, and none is
\* the missing value
C21_Emits(ids, rows, col) ==
    \A id \in ids : id # NA /\ \E r \in Range(rows) : r[col] = id

\* the rows of the file a writing pass has just written for the key
C21_Written(key) ==
    FileAt(fs', [dir |-> output_folder, name |-> gtfs_files[key].name]).rows

\* the id-sets of the bbox driver's first two passes, which write nothing
C21_Reading ==
    /\ (pc = "extract" /\ driver = "bbox" /\ pc' = "_get_trips_of_stop_times") =>
          LET InBbox(r) == Contains(TheBbox, r.stop_lat, r.stop_lon)
          IN  C21_Emits(loc'.stop_ids_in_bbox,
                        SelectSeq(fs[gtfs_files["stops"]].rows, InBbox), "stop_id")
    /\ (pc = "_get_trips_of_stop_times" /\ pc' = "_filter_trips") =>
          LET Kept(r) == r.stop_id \in loc.stop_ids_in_bbox
          IN  C21_Emits(loc'.trip_ids,
                        SelectSeq(fs[gtfs_files["stop_times"]].rows, Kept), "trip_id")

\* the id-sets of the passes that filter with KeepIfIn and write
C21_Writing ==
    /\ (pc = "_filter_trips" /\ pc' = "_filter_routes") =>
          /\ C21_Emits(loc'.route_ids_to_keep, C21_Written("trips"), "route_id")
          /\ C21_Emits(loc'.service_ids_to_keep, C21_Written("trips"), "service_id")
          /\ C21_Emits(loc'.shape_ids_to_keep, C21_Written("trips"), "shape_id")
    /\ (pc = "_filter_trips_by_service_ids" /\ pc' = "_filter_routes") =>
          /\ C21_Emits(loc'.route_ids_to_keep, C21_Written("trips"), "route_id")
          /\ C21_Emits(loc'.trip_ids, C21_Written("trips"), "trip_id")
          /\ C21_Emits(loc'.shape_ids_to_keep, C21_Written("trips"), "shape_id")
    /\ (pc = "_filter_routes" /\ pc' = "_filter_agencies") =>
          C21_Emits(loc'.agency_ids_to_keep, C21_Written("routes"), "agency_id")
    /\ (pc = "_filter_stop_times_using_trips" /\ pc' = "_filter_stops") =>
          C21_Emits(loc'.stop_ids_to_keep, C21_Written("stop_times"), "stop_id")

\* the id-sets of the two date passes; both write to the calendar output
C21_Dates ==
    /\ (pc = "extract" /\ driver = "date"
        /\ pc' = "_filter_calendar_dates_by_dates") =>
          C21_Emits(loc'.service_ids_to_keep, C21_Written("calendar"), "service_id")
    /\ (pc = "_filter_calendar_dates_by_dates"
        /\ pc' = "_filter_trips_by_service_ids") =>
          C21_Emits(loc'.service_ids_to_keep \ loc.service_ids_to_keep,
                    C21_Written("calendar"), "service_id")

\* C21: each id a pass emits is the value of the collected column in a row
\* that survived the pass (for a writing pass, a row of the file it wrote);
\* no id comes only from dropped rows and the missing value is never
\* emitted.
C21_EmittedIds == [][C21_Reading /\ C21_Writing /\ C21_Dates]_vars

\* C22: for every split of the file into partitions, every number of
\* workers and every order in which the workers finish, the pass writes the
\* rows and returns the id-sets that filtering the whole file in one piece
\* writes and returns.
C22_ChunkIndependent ==
    pc = "computed" =>
        LET res == filter_rows_by_custom_column(fs, output_folder, call.file_path,
                       call.ids, call.columns, call.return_columns, TRUE)
        IN  /\ res.err = "none"
            /\ res.fs = fs
            /\ res.ret = returned

\* the file was read in two partitions or more, the last one finished
\* before the first, both gave rows and a row between was dropped
C22_Witness ==
    /\ pc = "computed"
    /\ Len(pool.parts) >= 2
    /\ pool.order[1] = Len(pool.parts)
    /\ pool.done[1] # <<>>
    /\ pool.done[Len(pool.parts)] # <<>>
    /\ Len(OutRows("trips.txt")) < Len(fs[call.file_path].rows)

\* the statements of extract_by_bbox in the order of the driver
C23_BboxOrder ==
    <<"extract", "_get_trips_of_stop_times", "_filter_trips", "_filter_routes",
      "_filter_agencies", "_filter_shapes",
      "_filter_calendar_dates_using_services", "_filter_calendar_using_services",
      "_filter_frequencies_using_trips", "_filter_stop_times_using_trips",
      "_filter_stops", "_filter_transfers_using_stops", "copyfile",
      "_get_output_files", "done">>

C23_Pos(p) == CHOOSE k \in 1..Len(C23_BboxOrder) : C23_BboxOrder[k] = p

\* a step of the bbox driver
C23_Step == driver = "bbox" /\ pc \in DriverPcs /\ pc' # pc

\* a step goes to the next statement of the driver, or the driver fails
C23_InOrder ==
    C23_Step => (pc' = "failed" \/ pc' = C23_BboxOrder[C23_Pos(pc) + 1])

\* the output of the pass on key is the whole of what the pass writes for
\* the ids it was handed
C23_Complete(key, ids, col) ==
    LET out == [dir |-> output_folder, name |-> gtfs_files[key].name]
    IN  /\ Exists(fs, out)
        /\ fs[out].rows = row_filter(fs[gtfs_files[key]].rows, ids, <<col>>)

\* when a pass starts, the files of the passes before it are written whole
\* and their id-sets are those the pass is handed
C23_AfterPredecessors ==
    C23_Step =>
        /\ C23_Pos(pc) > 3 => C23_Complete("trips", loc.trip_ids, "trip_id")
        /\ C23_Pos(pc) > 4 =>
              C23_Complete("routes", loc.route_ids_to_keep, "route_id")
        /\ C23_Pos(pc) > 5 =>
              C23_Complete("agency", loc.agency_ids_to_keep, "agency_id")
        /\ C23_Pos(pc) > 10 =>
              C23_Complete("stop_times", loc.trip_ids, "trip_id")
        /\ C23_Pos(pc) > 11 =>
              C23_Complete("stops", loc.stop_ids_to_keep, "stop_id")

\* the passes on optional files, with the id-set each is handed
C23_Optional ==
    {[pc |-> "_filter_shapes", key |-> "shapes", ids |-> "shape_ids_to_keep"],
     [pc |-> "_filter_frequencies_using_trips", key |-> "frequencies",
      ids |-> "trip_ids"],
     [pc |-> "_filter_transfers_using_stops", key |-> "transfers",
      ids |-> "stop_ids_to_keep"]}

\* the pass o has written its output in this step
C23_Ran(o) ==
    Exists(fs', [dir |-> output_folder, name |-> Accessor(gtfs_files, o.key).name])

\* the feed has the optional file of the pass o
C23_InFeed(o) == gtfs_files[o.key] # NoPath /\ Exists(fs, gtfs_files[o.key])

\* C23: the passes of the bbox driver run one at a time in the order of
\* the driver, each after the files and id-sets of those before it are
\* complete, and a pass is left out if and only if it is a pass on an
\* optional file that the feed does not have.
C23_LinearPipeline ==
    [][/\ C23_InOrder
       /\ C23_AfterPredecessors
       /\ \A o \in C23_Optional :
             (C23_Step /\ pc = o.pc /\ pc' # "failed") =>
                (C23_Ran(o) <=> C23_InFeed(o))]_vars


\* ---------------------------------------------------------------------
\* C24: transfers are kept by both endpoints
\* ---------------------------------------------------------------------

\* the transfers file of the feed, when the feed has one
C24_HasTransfers == gtfs_files["transfers"] # NoPath /\ Exists(fs, gtfs_files["transfers"])

C24_OutPath == [dir |-> output_folder, name |-> gtfs_files["transfers"].name]

C24_BothIn(r) == r["from_stop_id"] \in loc.stop_ids_to_keep /\ r["to_stop_id"] \in loc.stop_ids_to_keep

C24_OneIn(r) == (r["from_stop_id"] \in loc.stop_ids_to_keep) # (r["to_stop_id"] \in loc.stop_ids_to_keep)

\* C24: when the feed has a transfers file, the transfers pass writes
\* exactly the input rows whose from_stop_id and to_stop_id are both in
\* the stop-id set of the stop_times pass, in input order; a row with
\* only one endpoint in the set is not written.
C24_TransfersBothEndpoints ==
    [][(pc = "_filter_transfers_using_stops" /\ pc' # pc /\ pc' # "failed" /\ C24_HasTransfers) =>
          /\ Exists(fs', C24_OutPath)
          /\ fs'[C24_OutPath].cols = fs[gtfs_files["transfers"]].cols
          /\ fs'[C24_OutPath].rows = SelectSeq(fs[gtfs_files["transfers"]].rows, C24_BothIn)
          /\ \A i \in 1..Len(fs'[C24_OutPath].rows) : ~C24_OneIn(fs'[C24_OutPath].rows[i])]_vars

\* the transfers pass has run on a file with a row it keeps and a row that
\* has only one endpoint in the stop-id set
C24_Witness ==
    /\ pc = "copyfile"
    /\ C24_HasTransfers
    /\ Exists(fs, C24_OutPath)
    /\ gtfs_files["transfers"].dir # output_folder
    /\ fs[C24_OutPath].rows # <<>>
    /\ \E i \in 1..Len(fs[gtfs_files["transfers"]].rows) : C24_OneIn(fs[gtfs_files["transfers"]].rows[i])


\* ---------------------------------------------------------------------
\* C25: the key a file name is registered under
\* ---------------------------------------------------------------------

\* the order the specification gives for the tokens
C25_SpecOrder ==
    <<"stop_times", "calendar_dates", "agency", "calendar", "feed_info",
      "routes", "stops", "trips", "frequencies", "shapes", "transfers">>

\* the order of the elif chain of set_files
C25_CodeOrder ==
    <<"agency", "calendar_dates", "calendar", "feed_info", "routes",
      "stop_times", "stops", "trips", "frequencies", "shapes", "transfers">>

\* the first token of the order that the name contains
C25_First(order, name) ==
    LET hits == {i \in 1..Len(order) : order[i] \in Tokens(name)}
    IN  order[CHOOSE i \in hits : \A j \in hits : i <= j]

\* one call of set_files registers the file under the first token of the
\* order and changes no other entry; a name without a token changes nothing
C25_RegistersBy(order) ==
    (pc = "set_files" /\ pc' = "scanned") =>
        /\ Tokens(call.file_path.name) = {} => gtfs_files' = gtfs_files
        /\ Tokens(call.file_path.name) # {} =>
              gtfs_files' = [gtfs_files EXCEPT ![C25_First(order, call.file_path.name)] = call.file_path]
        /\ "calendar_dates" \in Tokens(call.file_path.name) =>
              gtfs_files'["calendar"] = gtfs_files["calendar"]
        /\ "stop_times" \in Tokens(call.file_path.name) =>
              gtfs_files'["stops"] = gtfs_files["stops"]

\* C25 (as amended): scanning registers a file under the first token, in
\* the order agency, calendar_dates, calendar, feed_info, routes,
\* stop_times, stops, trips, frequencies, shapes, transfers, that its name
\* contains; a calendar_dates file is never registered as calendar, a
\* stop_times file never as stops, and a name without a token changes no
\* entry of the file table.
C25_FirstTokenInCodeOrder == [][C25_RegistersBy(C25_CodeOrder)]_vars

\* C25 (as stated): the same with the order stop_times, calendar_dates,
\* agency, calendar, feed_info, routes, stops, trips, frequencies, shapes,
\* transfers.
C25_FirstTokenInSpecOrder == [][C25_RegistersBy(C25_SpecOrder)]_vars

\* a name that holds both agency and stop_times has been registered, as
\* agency and not as stop_times
C25_Witness ==
    /\ pc = "scanned"
    /\ call.file_path.name = "agency_stop_times.txt"
    /\ gtfs_files["agency"] = call.file_path
    /\ gtfs_files["stop_times"] # call.file_path


\* ---------------------------------------------------------------------
\* C26: a failed pass stops the driver and leaves the earlier outputs
\* ---------------------------------------------------------------------

\* the files of the output folder
C26_Outputs(fsys) == {p \in DOMAIN fsys : p.dir = output_folder}

\* a step leaves every file of the output folder as it was
C26_OutputsKept ==
    /\ C26_Outputs(fs') = C26_Outputs(fs)
    /\ \A p \in C26_Outputs(fs) : fs'[p] = fs[p]

\* C26: when a pass of a driver fails, the pass is not run again and no
\* later pass runs; the driver ends in failure, and the files the earlier
\* passes wrote to the output folder stay exactly as they were written.
C26_FailureStops ==
    [][/\ (pc \in DriverPcs /\ pc' = "failed") =>
             /\ err' # "none"
             /\ \A p \in C26_Outputs(fs) : p \in DOMAIN fs' /\ fs'[p] = fs[p]
             /\ UNCHANGED <<loc, returned, gtfs_files, run>>
       /\ pc = "failed" =>
             /\ pc' = "failed"
             /\ C26_OutputsKept
             /\ UNCHANGED <<err, loc, returned, gtfs_files, run, driver,
                            input_folder, output_folder>>]_vars

\* a pass failed after earlier passes had written output files, and the
\* scratch directory has been released since
C26_Witness ==
    /\ pc = "failed"
    /\ err # "none"
    /\ C26_Outputs(fs) # {}
    /\ temporary_folder_context = "cleaned"


\* ---------------------------------------------------------------------
\* C27: an output file holds rows of the input file of the same name
\* ---------------------------------------------------------------------

\* the input file that the output file p is named after
C27_InputOf(p) == [dir |-> input_folder, name |-> p.name]

\* C27: in every state of an extraction, each file of the output folder that
\* is named after a GTFS file holds only rows of the input file of that
\* name, under that file's header.
C27_OutputRowsFromOwnInput ==
    (pc \in DriverPcs \cup {"failed", "done"} /\ output_folder # input_folder) =>
        \A p \in DOMAIN fs :
            (p.dir = output_folder /\ p.name \in TxtNames /\ Exists(fs, C27_InputOf(p))) =>
                /\ fs[p].cols = fs[C27_InputOf(p)].cols
                /\ Range(fs[p].rows) \subseteq Range(fs[C27_InputOf(p)].rows)


\* ---------------------------------------------------------------------
\* C28: a second driver call on the same instance
\* ---------------------------------------------------------------------

\* C28: a driver call leaves the table of input file paths as the
\* constructor built it, and a second call of the driver on the same
\* instance does not fail and ends with the output of the first call.
C28_SecondCallSame ==
    [][/\ (pc \in DriverPcs /\ pc' \in DriverPcs \cup {"done"}) =>
             gtfs_files' = gtfs_files
       /\ (run = 4 /\ pc \in DriverPcs) =>
             /\ pc' # "failed"
             /\ pc' = "done" => Folder(fs', output_folder) = call.output]_vars


\* ---------------------------------------------------------------------
\* C29: the input feed is left as it was
\* ---------------------------------------------------------------------

\* C29: whatever the output folder is, the input directory itself
\* included, an extraction changes, creates and deletes no file of the
\* input feed: in every state of a run, and after the driver has returned
\* or failed, the input folder holds the files it held before, unchanged.
C29_InputUntouched == Folder(fs, "in") = call.input


\* ---------------------------------------------------------------------
\* C30: nothing of an earlier run is left in the output
\* ---------------------------------------------------------------------

\* the file at p is still the one an earlier run left there
C30_LeftOver(p) == p \in call.stale /\ Exists(fs, p) /\ fs[p] = StaleFiles[p]

\* C30: when a driver completes in an output folder that existed before,
\* every *.txt file of the folder, and every file of the returned list, was
\* written by this run; no file of an earlier run is left.
C30_OnlyThisRun ==
    (pc = "done" /\ run = 1 /\ output_folder = "out") =>
        \A p \in Glob(fs, output_folder) \cup returned : ~C30_LeftOver(p)

=============================================================================
